---- MODULE Spec2Model ----
(***************************************************************************)
(* Verification model of banyan-shared-rs: the challenge deriver           *)
(* (src/proofs/mod.rs), the proof-window scheduler (src/proofs/window.rs,  *)
(* src/eth.rs) and the BlockNum arithmetic they rest on (src/types.rs).    *)
(*                                                                         *)
(* The program computes on u64, usize and U256 values and converts them to *)
(* f32 and f64.  These do not fit the model checker's 32-bit integers, so  *)
(* a natural number is represented here at its full width, as the sequence *)
(* of its digits in radix 2^15, least significant first and without        *)
(* leading zeros: 5 is <<5>>, 2^15 is <<0, 1>>, 0 is <<>>.  The arithmetic *)
(* of the first section is exact on such numbers; the program's            *)
(* fixed-width operations are built on it and wrap, saturate, round or     *)
(* panic exactly where the program's do.                                   *)
(***************************************************************************)
EXTENDS Integers, Sequences, FiniteSets, TLC

VARIABLES call, overflow_checks, ret

\* The remote content and the objects that read it: the bytes the content
\* collaborator holds, the IpfsReader, the range requests sent to the
\* collaborator so far, the calls made on the reader so far, and the locals
\* of the function that is running.
VARIABLES content, reader, fetches, trace, frame

remote == <<content, reader, fetches, trace, frame>>

\* The chain collaborator the EthClient talks to: the number of its latest
\* block, what the contract has recorded, and the event logs of its blocks.
VARIABLE chain

vars == <<call, overflow_checks, ret, remote, chain>>

----------------------------------------------------------------------------
(* Exact arithmetic on naturals of any size.  An operator takes its        *)
(* arguments by value: x \in {a} ranges over the one value of a, which is  *)
(* worked out once however often the operator uses it.                     *)

Base == 2^15

LimbBits == CHOOSE k \in 1..30 : 2^k = Base

\* s without its leading (most significant) zero digits.
Norm(s) ==
    CHOOSE v \in {IF nz = {} THEN <<>>
                  ELSE SubSeq(t, 1, CHOOSE i \in nz : \A j \in nz : j <= i) :
                      <<t, nz>> \in {<<u, {i \in 1..Len(u) : u[i] # 0}>> : u \in {s}}} : TRUE

\* The natural n, 0 <= n < 2^31.
N(n) == Norm(<<n % Base, (n \div Base) % Base, n \div (Base * Base)>>)

Zero == <<>>

One == <<1>>

Limb(a, i) == IF i <= Len(a) THEN a[i] ELSE 0

\* a * Base^k
ShiftLimbs(a, k) ==
    CHOOSE v \in {IF x = <<>> THEN <<>>
                  ELSE [i \in 1..(Len(x) + k) |-> IF i <= k THEN 0 ELSE x[i - k]] :
                      x \in {a}} : TRUE

\* 2^k
Pow2(k) == ShiftLimbs(<<2^(k % LimbBits)>>, k \div LimbBits)

Lt(a, b) ==
    \E x \in {a}, y \in {b} :
        \/ Len(x) < Len(y)
        \/ /\ Len(x) = Len(y)
           /\ \E i \in 1..Len(x) : /\ x[i] < y[i]
                                   /\ \A j \in (i + 1)..Len(x) : x[j] = y[j]

Le(a, b) == \E x \in {a}, y \in {b} : x = y \/ Lt(x, y)

\* The carry into digit i of a + b: some digit below i overflows by itself,
\* and every digit between it and i is Base - 1 and passes the carry on.
CarryIn(a, b, i) ==
    IF \E j \in 1..(i - 1) :
          /\ Limb(a, j) + Limb(b, j) >= Base
          /\ \A k \in (j + 1)..(i - 1) : Limb(a, k) + Limb(b, k) = Base - 1
    THEN 1 ELSE 0

\* a + b
Add(a, b) ==
    CHOOSE v \in {Norm([i \in 1..((IF Len(x) > Len(y) THEN Len(x) ELSE Len(y)) + 1) |->
                          (Limb(x, i) + Limb(y, i) + CarryIn(x, y, i)) % Base]) :
                      x \in {a}, y \in {b}} : TRUE

\* The borrow out of digit i of a - b: some digit below i is short by itself,
\* and every digit between it and i is zero and passes the borrow on.
BorrowIn(a, b, i) ==
    IF \E j \in 1..(i - 1) :
          /\ Limb(a, j) < Limb(b, j)
          /\ \A k \in (j + 1)..(i - 1) : Limb(a, k) = Limb(b, k)
    THEN 1 ELSE 0

\* a - b, for a >= b
Sub(a, b) ==
    CHOOSE v \in {Norm([i \in 1..Len(x) |->
                          (Limb(x, i) - Limb(y, i) - BorrowIn(x, y, i)) % Base]) :
                      x \in {a}, y \in {b}} : TRUE

\* a * d, for one digit d: the low halves of the digit products, plus their
\* high halves one digit up.
MulSmall(a, d) ==
    CHOOSE v \in {Add(Norm([i \in 1..Len(x) |-> (x[i] * d) % Base]),
                      ShiftLimbs(Norm([i \in 1..Len(x) |-> (x[i] * d) \div Base]), 1)) :
                      x \in {a}} : TRUE

RECURSIVE MulFrom(_, _, _)
\* a times the number made of the digits of b from digit i up: the product
\* by the digits above i (hi ranges over that one number), one digit up,
\* plus the product by digit i.
MulFrom(a, b, i) ==
    IF i > Len(b) THEN <<>>
    ELSE CHOOSE x \in {Add(MulSmall(a, b[i]), ShiftLimbs(hi, 1)) :
                          hi \in {MulFrom(a, b, i + 1)}} : TRUE

\* a * b
Mul(a, b) == IF Len(a) < Len(b) THEN MulFrom(b, a, 1) ELSE MulFrom(a, b, 1)

\* a * 2^k
Shl(a, k) == ShiftLimbs(MulSmall(a, 2^(k % LimbBits)), k \div LimbBits)

\* a div 2^k: digit i of the result is bits k + 15 (i - 1) and up of a, cut
\* out of the two digits that hold them.
Shr(a, k) ==
    LET j == k \div LimbBits
        o == k % LimbBits
    IN  CHOOSE v \in {IF Len(x) <= j THEN <<>>
                      ELSE Norm([i \in 1..(Len(x) - j) |->
                                   ((Limb(x, i + j) + Base * Limb(x, i + j + 1)) \div 2^o)
                                       % Base]) :
                          x \in {a}} : TRUE

\* a mod 2^k: the low k bits of a.
LowBits(a, k) ==
    IF k = 0 THEN <<>>
    ELSE CHOOSE v \in {Norm([i \in 1..((k + LimbBits - 1) \div LimbBits) |->
                               IF i * LimbBits <= k THEN Limb(x, i)
                               ELSE Limb(x, i) % 2^(k - LimbBits * (i - 1))]) :
                           x \in {a}} : TRUE

\* The number of significant bits of a (0 for 0).
BitLen(a) ==
    CHOOSE v \in {IF x = <<>> THEN 0
                  ELSE LimbBits * (Len(x) - 1)
                         + (CHOOSE k \in 1..LimbBits :
                                2^(k - 1) <= x[Len(x)] /\ x[Len(x)] < 2^k) :
                      x \in {a}} : TRUE

\* The next quotient digit of long division: the largest d with b * d <= r,
\* where r < b * Base and the top digit of b is at least Base / 2.  The
\* estimate from the top two digits of r and the top digit of b is at most
\* two too large (Knuth, TAOCP 4.3.1, Theorem B).
QuotDigit(r, b) ==
    LET n    == Len(b)
        est0 == (Limb(r, n + 1) * Base + Limb(r, n)) \div b[n]
        est  == IF est0 > Base - 1 THEN Base - 1 ELSE est0
    IN  IF Le(MulSmall(b, est), r) THEN est
        ELSE IF Le(MulSmall(b, est - 1), r) THEN est - 1
        ELSE est - 2

\* One step of long division by b: the digit ai is brought down to the
\* remainder of the digits above it.
DivStep(ai, b, hi) ==
    LET r == Norm(<<ai>> \o hi.rem)
    IN  IF Lt(r, b) THEN [quot |-> <<0>> \o hi.quot, rem |-> r]
        ELSE LET d == QuotDigit(r, b)
             IN  [quot |-> <<d>> \o hi.quot, rem |-> Sub(r, MulSmall(b, d))]

RECURSIVE DivFrom(_, _, _)
\* Long division of the digits of a from digit i up by b, whose top digit is
\* at least Base / 2: the quotient's digits and the remainder.  The digits
\* above i are divided first (hi ranges over the one result), then digit i
\* is brought down.
DivFrom(a, b, i) ==
    IF i > Len(a) THEN [quot |-> <<>>, rem |-> <<>>]
    ELSE CHOOSE x \in {DivStep(a[i], b, hi) : hi \in {DivFrom(a, b, i + 1)}} : TRUE

\* [quot |-> a div b, rem |-> a mod b], for b # 0.  Both are scaled by the
\* power of two 2^k that brings the top digit of b to at least Base / 2; the
\* quotient is unchanged and the remainder is scaled back.
DivMod(a, b) ==
    CHOOSE v \in {[quot |-> Norm(x.quot), rem |-> Shr(x.rem, k)] :
                      <<k, x>> \in {<<j, DivFrom(Shl(a, j), Shl(y, j), 1)>> :
                                       <<j, y>> \in {<<LimbBits * Len(z) - BitLen(z), z>> :
                                                      z \in {b}}}} : TRUE

\* ceil(a / b), for b # 0
CeilDiv(a, b) ==
    CHOOSE v \in {IF d.rem = <<>> THEN d.quot ELSE Add(d.quot, One) :
                      d \in {DivMod(a, b)}} : TRUE

----------------------------------------------------------------------------
(* Results of calls, and the program's fixed-width arithmetic.             *)

Ok(v) == [tag |-> "Ok", val |-> v]

Err(e) == [tag |-> "Err", val |-> e]

Some(v) == [tag |-> "Some", val |-> v]

None == [tag |-> "None", val |-> <<>>]

\* The call unwound with a panic instead of returning.
Panic(m) == [tag |-> "Panic", val |-> m]

\* No call has been made yet.
Pending == [tag |-> "Pending", val |-> <<>>]

\* The step that follows an operation that may panic: the panic unwinds
\* through it, and the value the operation yields otherwise goes on to
\* Continue.
Unwinding(result, Continue(_)) ==
    CHOOSE v \in {IF r.tag # "Ok" THEN r ELSE Continue(r.val) : r \in {result}} : TRUE

U64_BITS == 64

U64_MAX == Sub(Pow2(U64_BITS), One)

\* a + b on u64.  On overflow the build decides: with overflow checks (the
\* dev profile) the addition panics, without them (the release profile) it
\* wraps modulo 2^64.
u64_add(a, b, oc) ==
    CHOOSE v \in
        {IF Le(s, U64_MAX) THEN Ok(s)
         ELSE IF oc THEN Panic("attempt to add with overflow")
         ELSE Ok(LowBits(s, U64_BITS)) : s \in {Add(x, y) : x \in {a}, y \in {b}}} : TRUE

\* a - b on u64, panicking or wrapping on underflow as the build decides.
u64_sub(a, b, oc) ==
    CHOOSE v \in
        {IF Le(y, x) THEN Ok(Sub(x, y))
         ELSE IF oc THEN Panic("attempt to subtract with overflow")
         ELSE Ok(Sub(Add(x, Pow2(U64_BITS)), y)) : x \in {a}, y \in {b}} : TRUE

\* a * b on u64, panicking or wrapping on overflow as the build decides.
u64_mul(a, b, oc) ==
    CHOOSE v \in
        {IF Le(p, U64_MAX) THEN Ok(p)
         ELSE IF oc THEN Panic("attempt to multiply with overflow")
         ELSE Ok(LowBits(p, U64_BITS)) : p \in {Mul(x, y) : x \in {a}, y \in {b}}} : TRUE

\* a.div_euclid(b) on u64: division by zero panics in every build.
u64_div_euclid(a, b) ==
    CHOOSE v \in
        {IF y = Zero THEN Panic("attempt to divide by zero")
         ELSE Ok(DivMod(x, y).quot) : x \in {a}, y \in {b}} : TRUE

\* a / b on u64: division by zero panics in every build.
u64_div(a, b) ==
    CHOOSE v \in
        {IF y = Zero THEN Panic("attempt to divide by zero")
         ELSE Ok(DivMod(x, y).quot) : x \in {a}, y \in {b}} : TRUE

\* impl Add for BlockNum
BlockNum_add(a, b, oc) == u64_add(a, b, oc)

\* impl Sub for BlockNum
BlockNum_sub(a, b, oc) == u64_sub(a, b, oc)

\* impl Mul<u64> for BlockNum
BlockNum_mul_u64(a, b, oc) == u64_mul(a, b, oc)

\* impl Mul<usize> for BlockNum: the usize is cast to u64 (the same value on
\* a 64-bit target) and multiplied.
BlockNum_mul_usize(a, b, oc) == u64_mul(a, b, oc)

----------------------------------------------------------------------------
(* Floating point.  A finite non-negative float is [m, e], standing for    *)
(* m * 2^e with m a natural of at most `precision` significant bits.       *)

F32_MANTISSA_DIGITS == 24

F64_MANTISSA_DIGITS == 53

\* A conversion that drops the bits that do not fit instead of rounding to
\* nearest; the rounding property of get_num_windows is tested against it.
int_as_float_toward_zero(n, p) ==
    IF BitLen(n) <= p THEN [m |-> n, e |-> 0]
    ELSE [m |-> Shr(n, BitLen(n) - p), e |-> BitLen(n) - p]

\* `n as f32` / `n as f64`: n rounded to p significant bits, to nearest, ties
\* to the even significand.
int_as_float(n, p) ==
    IF BitLen(n) <= p THEN [m |-> n, e |-> 0]
    ELSE LET k    == BitLen(n) - p
             q    == Shr(n, k)
             r    == LowBits(n, k)
             half == Pow2(k - 1)
             up   == \/ Lt(half, r)
                     \/ r = half /\ Limb(q, 1) % 2 = 1
         IN  [m |-> IF up THEN Add(q, One) ELSE q, e |-> k]

\* x / y for y a power of two: the quotient only lowers the exponent, so it
\* is exact.  (The program divides by CHUNK_SIZE = 2^10 and by 10^0 = 1 only.)
float_div_pow2(x, y) == [m |-> x.m, e |-> x.e - y.e - (BitLen(y.m) - 1)]

\* x.ceil()
float_ceil(x) ==
    IF x.e >= 0 THEN [m |-> Shl(x.m, x.e), e |-> 0]
    ELSE [m |-> IF LowBits(x.m, 0 - x.e) = Zero THEN Shr(x.m, 0 - x.e)
                ELSE Add(Shr(x.m, 0 - x.e), One),
          e |-> 0]

\* `x as u64` / `x as usize` (64-bit): truncation toward zero, saturating at
\* the largest value of the type.
float_as_u64(x) ==
    LET v == IF x.e >= 0 THEN Shl(x.m, x.e) ELSE Shr(x.m, 0 - x.e)
    IN  IF Lt(U64_MAX, v) THEN U64_MAX ELSE v

----------------------------------------------------------------------------
(* The challenge deriver, src/proofs/mod.rs.                               *)

\* 1024 bytes per bao chunk
CHUNK_SIZE == 1024

H256_BYTES == 32

\* Byte k of the hash counted from the least significant one, which is the
\* last of its 32 bytes; 0 beyond the hash.
ByteLE(h, k) == IF k < H256_BYTES THEN h[H256_BYTES - k] ELSE 0

\* U256::from_big_endian: the integer whose big-endian bytes are h.  Digit i
\* of the result is bits 15 (i - 1) .. 15 (i - 1) + 14 of that integer, cut
\* out of the (at most three) bytes that hold them.
from_big_endian(h) ==
    Norm([i \in 1..((8 * H256_BYTES + LimbBits - 1) \div LimbBits) |->
            LET p == LimbBits * (i - 1)
                k == p \div 8
            IN  ((ByteLE(h, k) + 256 * ByteLE(h, k + 1) + 65536 * ByteLE(h, k + 2))
                    \div 2^(p % 8)) % Base])

\* H256::into_uint: all 32 bytes of the hash, read as one big-endian integer.
into_uint(block_hash) == from_big_endian(block_hash)

\* U256::as_u64: panics when the value does not fit 64 bits.
as_u64(x) == IF Le(x, U64_MAX) THEN Ok(x)
             ELSE Panic("Integer overflow when casting to u64")

\* U256 % u64: the divisor is widened to U256; a zero divisor panics.
U256_rem(x, n) == IF n = Zero THEN Panic("division by zero")
                  ELSE Ok(DivMod(x, n).rem)

\* fn get_num_chunks(size: u64) -> u64:
\*     (size as f32 / CHUNK_SIZE as f32).ceil() as u64
get_num_chunks(size) ==
    float_as_u64(float_ceil(float_div_pow2(
        int_as_float(size, F32_MANTISSA_DIGITS),
        int_as_float(N(CHUNK_SIZE), F32_MANTISSA_DIGITS))))

\* pub fn compute_random_block_choice_from_hash(block_hash, file_length)
\*     -> (chunk_offset, chunk_size)
compute_random_block_choice_from_hash(block_hash, file_length, oc) ==
    LET num_chunks == get_num_chunks(file_length)
        r          == U256_rem(into_uint(block_hash), num_chunks)
    IN  IF r.tag # "Ok" THEN r ELSE
        LET chunk_number == as_u64(r.val) IN
        IF chunk_number.tag # "Ok" THEN chunk_number ELSE
        LET chunk_offset == u64_mul(chunk_number.val, N(CHUNK_SIZE), oc) IN
        IF chunk_offset.tag # "Ok" THEN chunk_offset ELSE
        LET last == u64_sub(num_chunks, One, oc) IN
        IF last.tag # "Ok" THEN last ELSE
        IF chunk_number.val = last.val
        THEN LET chunk_size == u64_sub(file_length, chunk_offset.val, oc)
             IN  IF chunk_size.tag # "Ok" THEN chunk_size
                 ELSE Ok(<<chunk_offset.val, chunk_size.val>>)
        ELSE Ok(<<chunk_offset.val, N(CHUNK_SIZE)>>)

----------------------------------------------------------------------------
(* The proof-window scheduler, src/proofs/window.rs and src/eth.rs.        *)

\* get_the_current_window without its test for a deal that is over; the
\* window properties are tested against it.
get_the_current_window_unended(deal_info, current_block_num, oc) ==
    IF Lt(current_block_num, deal_info.deal_start_block) THEN Err("Future") ELSE
    LET offset == BlockNum_sub(current_block_num, deal_info.deal_start_block, oc) IN
    IF offset.tag # "Ok" THEN offset ELSE
    LET window_number == u64_div_euclid(offset.val,
                                        deal_info.proof_frequency_in_blocks) IN
    IF window_number.tag # "Ok" THEN window_number ELSE
    LET elapsed == BlockNum_mul_u64(deal_info.proof_frequency_in_blocks,
                                    window_number.val, oc) IN
    IF elapsed.tag # "Ok" THEN elapsed ELSE
    BlockNum_add(deal_info.deal_start_block, elapsed.val, oc)

\* pub fn get_the_current_window(deal_info, current_block_num)
\*     -> Result<BlockNum, DealStatusError>
get_the_current_window(deal_info, current_block_num, oc) ==
    IF Lt(current_block_num, deal_info.deal_start_block) THEN Err("Future") ELSE
    LET final == BlockNum_add(deal_info.deal_start_block,
                              deal_info.deal_length_in_blocks, oc) IN
    IF final.tag # "Ok" THEN final ELSE
    IF Le(final.val, current_block_num) THEN Err("Past") ELSE
    LET offset == BlockNum_sub(current_block_num, deal_info.deal_start_block, oc) IN
    IF offset.tag # "Ok" THEN offset ELSE
    LET window_number == u64_div_euclid(offset.val,
                                        deal_info.proof_frequency_in_blocks) IN
    IF window_number.tag # "Ok" THEN window_number ELSE
    LET elapsed == BlockNum_mul_u64(deal_info.proof_frequency_in_blocks,
                                    window_number.val, oc) IN
    IF elapsed.tag # "Ok" THEN elapsed ELSE
    BlockNum_add(deal_info.deal_start_block, elapsed.val, oc)

\* pub fn get_the_next_window(deal_info, last_submission) -> Option<BlockNum>
get_the_next_window(deal_info, last_submission, oc) ==
    Unwinding(BlockNum_sub(last_submission, deal_info.deal_start_block, oc),
              LAMBDA offset :
    Unwinding(u64_div_euclid(offset, deal_info.proof_frequency_in_blocks),
              LAMBDA window_number :
    Unwinding(u64_add(window_number, One, oc),
              LAMBDA next :
    Unwinding(BlockNum_mul_u64(deal_info.proof_frequency_in_blocks, next, oc),
              LAMBDA elapsed_length :
    IF Le(deal_info.deal_length_in_blocks, elapsed_length) THEN None ELSE
    Unwinding(BlockNum_add(deal_info.deal_start_block, elapsed_length, oc),
              LAMBDA target : Some(target))))))

\* math::round::ceil(value, 0): (value * 10^0).ceil() / 10^0
math_round_ceil(value) == float_ceil(value)

\* get_num_windows without its test of window_size; the division-by-zero
\* property is tested against it.
get_num_windows_unguarded(deal_length, window_size) ==
    LET q == u64_div(deal_length, window_size)
    IN  IF q.tag # "Ok" THEN q
        ELSE Ok(float_as_u64(math_round_ceil(
                 int_as_float(q.val, F64_MANTISSA_DIGITS))))

\* pub fn get_num_windows(deal_length, window_size) -> Result<usize, anyhow::Error>
\*     if window_size.0 == 0 { return Err(anyhow!("Cannot divide by zero")) }
\*     Ok(math::round::ceil((deal_length.0 / window_size.0) as f64, 0) as usize)
get_num_windows(deal_length, window_size) ==
    IF window_size = Zero THEN Err("Cannot divide by zero") ELSE
    LET q == u64_div(deal_length, window_size) IN
    IF q.tag # "Ok" THEN q ELSE
    Ok(float_as_u64(math_round_ceil(int_as_float(q.val, F64_MANTISSA_DIGITS))))

\* pub fn compute_target_block_start(deal_start_block, proof_frequency_in_blocks,
\*                                   target_window_num: usize) -> BlockNum
compute_target_block_start(deal_start_block, proof_frequency_in_blocks, target_window_num, oc) ==
    LET elapsed == BlockNum_mul_usize(proof_frequency_in_blocks,
                                      target_window_num, oc) IN
    IF elapsed.tag # "Ok" THEN elapsed ELSE
    BlockNum_add(elapsed.val, deal_start_block, oc)

\* pub fn deal_over(current_block_num: BlockNum, deal_info: OnChainDealInfo) -> bool
\*     current_block_num > Add::add(deal_info.deal_start_block,
\*                                  deal_info.deal_length_in_blocks)
deal_over(current_block_num, deal_info, oc) ==
    Unwinding(BlockNum_add(deal_info.deal_start_block,
                           deal_info.deal_length_in_blocks, oc),
              LAMBDA final : Ok(Lt(final, current_block_num)))

\* impl Div for BlockNum
BlockNum_div(a, b) == u64_div(a, b)

\* usize::try_from(v) for a u64 v: every u64 is a usize on a 64-bit target.
usize_try_from(v) == IF Le(v, U64_MAX) THEN Ok(v) ELSE Err("TryFromIntError")

\* pub async fn compute_target_window(&self, deal_start_block,
\*                                    proof_frequency_in_blocks) -> Result<usize>
\* latest is what get_latest_block_num returned: the number of the chain's
\* latest block, or the provider's error, which `?` hands to the caller.
compute_target_window(latest, deal_start_block, proof_frequency_in_blocks, oc) ==
    IF latest.tag # "Ok" THEN latest ELSE
    Unwinding(BlockNum_sub(latest.val, deal_start_block, oc),
              LAMBDA offset :
    Unwinding(BlockNum_div(offset, proof_frequency_in_blocks),
              LAMBDA window_num : usize_try_from(window_num)))

\* impl OnChainDealInfo: pub fn get_final_block(&self) -> BlockNum
get_final_block(self, oc) ==
    BlockNum_add(self.deal_start_block, self.deal_length_in_blocks, oc)

----------------------------------------------------------------------------
(* Signed 64-bit integers, for the seek arithmetic of src/ipfs.rs.  An i64 *)
(* is [neg, mag]: the value -mag when neg, mag otherwise; 0 is not neg.    *)

I64_BITS == 64

Int64(neg, mag) == CHOOSE v \in {[neg |-> neg /\ m # Zero, mag |-> m] : m \in {mag}} : TRUE

\* a + b, exactly
SignedAdd(a, b) ==
    CHOOSE v \in {IF x.neg = y.neg THEN Int64(x.neg, Add(x.mag, y.mag))
                  ELSE IF Le(y.mag, x.mag) THEN Int64(x.neg, Sub(x.mag, y.mag))
                  ELSE Int64(y.neg, Sub(y.mag, x.mag)) :
                      x \in {a}, y \in {b}} : TRUE

\* -2^63 <= x <= 2^63 - 1
FitsI64(x) == \E y \in {x} : IF y.neg THEN Le(y.mag, Pow2(I64_BITS - 1))
                               ELSE Lt(y.mag, Pow2(I64_BITS - 1))

\* `v as i64` for a u64 or usize v: the same 64 bits, read as two's
\* complement.
u64_as_i64(v) ==
    CHOOSE x \in {IF Lt(w, Pow2(I64_BITS - 1)) THEN Int64(FALSE, w)
                  ELSE Int64(TRUE, Sub(Pow2(I64_BITS), w)) : w \in {v}} : TRUE

\* `x as u64` for an i64 x: the same 64 bits, read as unsigned.
i64_as_u64(x) ==
    CHOOSE v \in {IF y.neg THEN Sub(Pow2(I64_BITS), y.mag) ELSE y.mag : y \in {x}} : TRUE

\* a + b on i64, panicking or wrapping on overflow as the build decides.
i64_add(a, b, oc) ==
    CHOOSE v \in {IF FitsI64(s) THEN Ok(s)
                  ELSE IF oc THEN Panic("attempt to add with overflow")
                  ELSE Ok(Int64(~s.neg, Sub(Pow2(I64_BITS), s.mag))) :
                      s \in {SignedAdd(a, b)}} : TRUE

----------------------------------------------------------------------------
(* The remote reader, src/ipfs.rs.  A byte string read from the content is *)
(* the sequence of the content ranges [lo, hi) it was copied from, so that *)
(* two byte strings are equal when they hold the same content bytes in the *)
(* same order.                                                             *)

Min(a, b) == CHOOSE v \in {IF Le(x, y) THEN x ELSE y : x \in {a}, y \in {b}} : TRUE

Max(a, b) == CHOOSE v \in {IF Le(x, y) THEN y ELSE x : x \in {a}, y \in {b}} : TRUE

\* Byte strings are kept by where their bytes come from: a sequence of
\* segments [src, lo, hi), each the bytes lo .. hi - 1 of the content (src
\* "content"), those bytes with the low bit flipped ("flipped"), or hi - lo
\* zero bytes ("zero").  Two byte strings are equal exactly when they are the
\* same sequence of segments, neighbouring segments being merged.

\* The range [lo, hi) of the content as a byte string; empty when lo >= hi.
Bytes(lo, hi) ==
    IF Lt(lo, hi) THEN <<[src |-> "content", lo |-> lo, hi |-> hi]>> ELSE <<>>

\* n zero bytes: [0; n].
Zeros(n) == IF n = Zero THEN <<>> ELSE <<[src |-> "zero", lo |-> Zero, hi |-> n]>>

\* The number of bytes in the first k segments of b.
RECURSIVE PrefixLen(_, _)
PrefixLen(b, k) ==
    IF k = 0 THEN Zero
    ELSE CHOOSE v \in {Add(PrefixLen(c, k - 1), Sub(c[k].hi, c[k].lo)) : c \in {b}} : TRUE

\* The number of bytes of a byte string.
ByteLen(b) == PrefixLen(b, Len(b))

\* a followed by b.
Concat(a, b) ==
    CHOOSE v \in
        {IF c = <<>> THEN d
         ELSE IF d = <<>> THEN c
         ELSE LET x == c[Len(c)]
                  y == d[1]
              IN  IF x.src = y.src /\ x.src = "zero"
                  THEN SubSeq(c, 1, Len(c) - 1)
                       \o <<[x EXCEPT !.hi = Add(x.hi, Sub(y.hi, y.lo))]>> \o Tail(d)
                  ELSE IF x.src = y.src /\ x.hi = y.lo
                  THEN SubSeq(c, 1, Len(c) - 1) \o <<[x EXCEPT !.hi = y.hi]>> \o Tail(d)
                  ELSE c \o d :
             c \in {a}, d \in {b}} : TRUE

\* The part of segment k of b that lies in the positions [i, j) of b.
SegmentSlice(b, k, i, j) ==
    CHOOSE v \in
        {IF Lt(lo, hi)
         THEN <<[c[k] EXCEPT !.lo = Add(c[k].lo, Sub(lo, from)),
                             !.hi = Add(c[k].lo, Sub(hi, from))]>>
         ELSE <<>> :
             <<c, from, lo, hi>> \in
                 {<<d, PrefixLen(d, k - 1), Max(i, PrefixLen(d, k - 1)),
                    Min(j, PrefixLen(d, k))>> : d \in {b}}} : TRUE

RECURSIVE ByteSliceUpTo(_, _, _, _)
ByteSliceUpTo(b, k, i, j) ==
    IF k = 0 THEN <<>>
    ELSE Concat(ByteSliceUpTo(b, k - 1, i, j), SegmentSlice(b, k, i, j))

\* &b[i..j], cut short where b ends.
ByteSlice(b, i, j) == ByteSliceUpTo(b, Len(b), i, j)

\* b with the low bit of its last byte flipped: b[last] ^= 1.
FlipLastByte(b) ==
    LET n == ByteLen(b)
        t == ByteSlice(b, Sub(n, One), n)[1]
    IN  Concat(ByteSlice(b, Zero, Sub(n, One)),
               <<[t EXCEPT !.src = IF t.src = "content" THEN "flipped"
                                   ELSE IF t.src = "flipped" THEN "content"
                                   ELSE "one"]>>)

\* The content collaborator's read_range (IpfsApi::cat_range): the bytes of
\* the content in [offset, offset + length), fewer where the content ends.
cat_range(c, offset, length) ==
    Bytes(Min(offset, c.len), Min(Add(offset, length), c.len))

\* std::io::SeekFrom
SeekFrom_Start(n) == [kind |-> "Start", n |-> n]

SeekFrom_Current(d) == [kind |-> "Current", d |-> d]

SeekFrom_End(d) == [kind |-> "End", d |-> d]

\* There is no reader.
NoReader == [cid |-> "", offset |-> Zero, length |-> Zero]

\* IpfsReader::new(api, cid): the cursor at 0, the length the collaborator's
\* object_stat reports as cumulative_size.
IpfsReader_new(cid, cumulative_size) ==
    [cid |-> cid, offset |-> Zero, length |-> cumulative_size]

\* A relative seek that does not test the sign of the position it arrives
\* at; the rejection of negative positions is tested against it.
SeekRelative_unchecked(self, base, d, oc) ==
    CHOOSE v \in
        {IF i64_offset.tag # "Ok" THEN [self |-> self, ret |-> i64_offset]
         ELSE [self |-> [self EXCEPT !.offset = i64_as_u64(i64_offset.val)],
               ret  |-> Ok(i64_as_u64(i64_offset.val))] :
             i64_offset \in {i64_add(u64_as_i64(base), d, oc)}} : TRUE

\* The position a relative seek from base by d leads to: Err when it is
\* negative, and the reader with its cursor there otherwise.
SeekRelative(self, base, d, oc) ==
    CHOOSE v \in
        {IF i64_offset.tag # "Ok" THEN [self |-> self, ret |-> i64_offset]
         ELSE IF i64_offset.val.neg
         THEN [self |-> self, ret |-> Err("invalid seek to a negative position")]
         ELSE [self |-> [self EXCEPT !.offset = i64_as_u64(i64_offset.val)],
               ret  |-> Ok(i64_as_u64(i64_offset.val))] :
             i64_offset \in {i64_add(u64_as_i64(base), d, oc)}} : TRUE

\* A read that leaves the cursor where it was; the termination of a loop of
\* reads is tested against it.
IpfsReader_read_unmoved(self, buf_len, c, oc) ==
    [self  |-> self,
     ret   |-> Ok(ByteLen(cat_range(c, self.offset, buf_len))),
     fetch |-> [cid |-> self.cid, offset |-> self.offset, length |-> buf_len],
     buf   |-> cat_range(c, self.offset, buf_len)]

\* impl Seek for IpfsReader: fn seek(&mut self, pos) -> io::Result<u64>.
\* The reader after the call and what the call returns.
IpfsReader_seek(self, pos, oc) ==
    IF pos.kind = "Start"
    THEN [self |-> [self EXCEPT !.offset = pos.n], ret |-> Ok(pos.n)]
    ELSE IF pos.kind = "Current" THEN SeekRelative(self, self.offset, pos.d, oc)
    ELSE SeekRelative(self, self.length, pos.d, oc)

\* impl Read for IpfsReader: fn read(&mut self, buf) -> io::Result<usize>,
\* for a buffer of buf_len bytes.  The reader after the call, what the call
\* returns, the range requested of the collaborator and the bytes copied to
\* the front of buf.
IpfsReader_read(self, buf_len, c, oc) ==
    CHOOSE v \in
        {[self  |-> sought.self,
          ret   |-> IF sought.ret.tag = "Ok" THEN Ok(bytes_read) ELSE sought.ret,
          fetch |-> [cid |-> self.cid, offset |-> self.offset, length |-> buf_len],
          buf   |-> bytes_from_ipfs] :
             <<bytes_from_ipfs, bytes_read, sought>> \in
                 {<<b, n, IpfsReader_seek(self, SeekFrom_Current(u64_as_i64(n)), oc)>> :
                      <<b, n>> \in {<<f, ByteLen(f)>> :
                                      f \in {cat_range(c, self.offset, buf_len)}}}} : TRUE

----------------------------------------------------------------------------
(* The bao crate, as src/proofs/mod.rs and src/eth.rs use it: the BLAKE3   *)
(* tree over chunks of CHUNK_SIZE bytes, its outboard encoding, slice      *)
(* extraction and slice decoding.  A chaining value is kept as the term    *)
(* it is the hash of, so two of them are equal exactly when they hash the  *)
(* same bytes at the same place of the tree (collision resistance).        *)

\* The chaining value of the subtree over the bytes data whose first chunk
\* has index at; root for the root of the tree.  alt tells how a value
\* that is not the hash of data came about: by altering a byte of one
\* ("x"), or as the parent of such values.
SubtreeHash(data, at, root) == [data |-> data, at |-> at, root |-> root, alt |-> <<>>]

\* The chaining value h with a bit of it flipped; flipping it again gives
\* h back.
FlipHashBit(h) == [h EXCEPT !.alt = IF @ = <<"x">> THEN <<>> ELSE @ \o <<"x">>]

NoHash == SubtreeHash(<<>>, Zero, FALSE)

\* The number of chunks of content_len bytes; empty content is one empty
\* chunk.
chunk_count(content_len) ==
    IF content_len = Zero THEN One ELSE CeilDiv(content_len, N(CHUNK_SIZE))

\* The byte position where chunk number at starts.
chunk_start(at) == MulSmall(at, CHUNK_SIZE)

\* The number of bytes of chunk number at of content_len bytes.
chunk_len(content_len, at) ==
    Sub(Min(chunk_start(Add(at, One)), content_len), chunk_start(at))

\* The number of chunks under the left child of a subtree of n >= 2 chunks:
\* the largest power of two below n.
left_len(n) == Pow2(BitLen(Sub(n, One)) - 1)

\* The chaining value of a parent node from those of its children.
parent_cv(left, right, root) ==
    [data |-> Concat(left.data, right.data), at |-> left.at, root |-> root,
     alt  |-> IF left.alt = <<>> /\ right.alt = <<>> THEN <<>>
              ELSE <<"(">> \o left.alt \o <<",">> \o right.alt \o <<")">>]

\* bao::encode::outboard(input): the outboard encoding, which is the length
\* header and the parent nodes (a function of the input, none for a single
\* chunk), and the root hash.
outboard(input) ==
    [obao |-> [len |-> ByteLen(input),
               of  |-> IF chunk_count(ByteLen(input)) = One THEN <<>> ELSE input],
     hash |-> SubtreeHash(input, Zero, TRUE)]

\* bao::encode::Encoder::new_outboard, write_all and finalize: the encoder
\* keeps what was written to it, and finalize encodes that.
Encoder_new_outboard == [written |-> <<>>]

Encoder_write_all(encoder, bytes) == [written |-> Concat(encoder.written, bytes)]

Encoder_finalize(encoder) == outboard(encoder.written)

\* The chunks a slice of slice_len bytes from slice_start covers: a slice
\* takes in at least one byte, and one at or past the end of the content
\* covers the final chunk.
slice_chunks(content_len, slice_start, slice_len) ==
    LET last_chunk == Sub(chunk_count(content_len), One)
        slice_end  == Add(slice_start, Max(slice_len, One))
    IN  [first |-> Min(DivMod(slice_start, N(CHUNK_SIZE)).quot, last_chunk),
         last  |-> Min(DivMod(Sub(slice_end, One), N(CHUNK_SIZE)).quot, last_chunk)]

RECURSIVE SliceWalk(_, _, _, _, _)
\* The nodes of the subtree of n chunks from chunk at, depth levels below
\* the root, that a slice over the chunks first .. last holds, in the order
\* of the encoding (a parent before its children, left before right).
SliceWalk(at, n, depth, first, last) ==
    IF n = One THEN <<[at |-> at, n |-> n, depth |-> depth]>>
    ELSE LET mid == Add(at, left_len(n))
         IN  <<[at |-> at, n |-> n, depth |-> depth]>>
             \o (IF Lt(first, mid)
                 THEN SliceWalk(at, left_len(n), depth + 1, first, last)
                 ELSE <<>>)
             \o (IF Le(mid, last)
                 THEN SliceWalk(mid, Sub(n, left_len(n)), depth + 1, first, last)
                 ELSE <<>>)

\* The nodes of the tree of n chunks that a slice over the chunks of range
\* holds.
SliceNodes(n, range) == SliceWalk(Zero, n, 0, range.first, range.last)

\* The nodes of a slice of content_len bytes of content.
SlicePath(content_len, slice_start, slice_len) ==
    SliceNodes(chunk_count(content_len),
               slice_chunks(content_len, slice_start, slice_len))

\* The parent of node i > 1 of path: the nearest node before it that is one
\* level higher.
ParentIndex(path, i) ==
    CHOOSE j \in 1..(i - 1) :
        /\ path[j].depth = path[i].depth - 1
        /\ \A k \in (j + 1)..(i - 1) : path[k].depth # path[i].depth - 1

\* The bytes of an encoded slice, item by item: the 8-byte length header,
\* 64-byte parent nodes (two chaining values) and chunks; cut marks an item
\* that has lost bytes at its end.
HeaderItem(len) == [kind |-> "header", len |-> len, left |-> NoHash, right |-> NoHash, data |-> <<>>, cut |-> FALSE]

ParentItem(left, right) == [kind |-> "parent", len |-> Zero, left |-> left, right |-> right, data |-> <<>>, cut |-> FALSE]

ChunkItem(data) == [kind |-> "chunk", len |-> Zero, left |-> NoHash, right |-> NoHash, data |-> data, cut |-> FALSE]

\* The number of chunk bytes in the items before item i of path.
RECURSIVE ChunkBytesBefore(_, _, _)
ChunkBytesBefore(content_len, path, i) ==
    IF i = 1 THEN Zero
    ELSE Add(ChunkBytesBefore(content_len, path, i - 1),
             IF path[i - 1].n = One THEN chunk_len(content_len, path[i - 1].at)
             ELSE Zero)

\* What the extractor reads of its input for the chunk node i of path: a
\* reader that seeks is read at the chunk's position, a FakeSeeker (whose
\* seek does nothing) where the earlier reads left it.
ReadChunk(input, content_len, path, i) ==
    LET from == IF input.seeks THEN chunk_start(path[i].at)
                ELSE ChunkBytesBefore(content_len, path, i)
    IN  ByteSlice(input.data, from, Add(from, chunk_len(content_len, path[i].at)))

\* The item of node i of path that the extractor writes: a parent node out
\* of the outboard encoding, a chunk out of the input.
ExtractItem(input, obao, path, i) ==
    IF path[i].n = One THEN ChunkItem(ReadChunk(input, obao.len, path, i))
    ELSE LET at  == path[i].at
             mid == Add(at, left_len(path[i].n))
             end == Add(at, path[i].n)
         IN  ParentItem(
                 SubtreeHash(ByteSlice(obao.of, chunk_start(at), chunk_start(mid)),
                             at, FALSE),
                 SubtreeHash(ByteSlice(obao.of, chunk_start(mid), chunk_start(end)),
                             mid, FALSE))

\* The slice the extractor writes for the nodes of path, or an error when
\* the input ends before a chunk is complete (read_exact).
ExtractSlice(input, obao, path) ==
    IF \E i \in 1..Len(path) :
           /\ path[i].n = One
           /\ ByteLen(ReadChunk(input, obao.len, path, i))
                  # chunk_len(obao.len, path[i].at)
    THEN Err("UnexpectedEof")
    ELSE Ok(<<HeaderItem(obao.len)>>
            \o [i \in 1..Len(path) |-> ExtractItem(input, obao, path, i)])

\* bao::encode::SliceExtractor::new_outboard(input, outboard, slice_start,
\* slice_len).read_to_end()
SliceExtractor_read_to_end(input, obao, slice_start, slice_len) ==
    ExtractSlice(input, obao, SlicePath(obao.len, slice_start, slice_len))

\* The chaining value the encoding gives for node i of path: the root
\* hash for the root, and for another node the left or right half of its
\* parent's item.
ExpectedHash(encoded, hash, path, i) ==
    IF i = 1 THEN hash
    ELSE IF path[ParentIndex(path, i)].at = path[i].at
    THEN encoded[ParentIndex(path, i) + 1].left
    ELSE encoded[ParentIndex(path, i) + 1].right

\* A decoder's test that takes a chunk of the right size without hashing
\* it; the rejection of an altered proof is tested against it.
ItemVerifies_unhashed(item, expected, size, at, single, root) ==
    /\ ~item.cut
    /\ IF single
       THEN /\ item.kind = "chunk"
            /\ ByteLen(item.data) = size
       ELSE /\ item.kind = "parent"
            /\ parent_cv(item.left, item.right, root) = expected

\* The decoder's test of the item it reads for a node, a single chunk of
\* size bytes with index at or a parent node: the item is whole, of the
\* node's kind and size, and hashes to the expected chaining value.
ItemVerifies(item, expected, size, at, single, root) ==
    /\ ~item.cut
    /\ IF single
       THEN /\ item.kind = "chunk"
            /\ ByteLen(item.data) = size
            /\ SubtreeHash(item.data, at, root) = expected
       ELSE /\ item.kind = "parent"
            /\ parent_cv(item.left, item.right, root) = expected

\* The decoder's test of the item the encoding holds for node i of path.
NodeVerifies(encoded, hash, content_len, path, i) ==
    ItemVerifies(encoded[i + 1], ExpectedHash(encoded, hash, path, i),
                 chunk_len(content_len, path[i].at), path[i].at,
                 path[i].n = One, i = 1)

\* The decoder's reading of the nodes of path after the header: Ok when
\* every node of the slice is there and verifies, an error otherwise.
DecodeSlice(encoded, hash, path) ==
    IF Len(encoded) - 1 < Len(path) THEN Err("UnexpectedEof")
    ELSE IF \A i \in 1..Len(path) :
                NodeVerifies(encoded, hash, encoded[1].len, path, i)
    THEN Ok(<<>>)
    ELSE Err("InvalidData")

\* bao::decode::SliceDecoder::new(encoded, hash, slice_start, slice_len)
\* .read_to_end(): an error when the header is missing.  The decoder stops
\* reading at the end of the slice, so bytes after it are not looked at.
SliceDecoder_read_to_end(encoded, hash, slice_start, slice_len) ==
    IF encoded = <<>> \/ encoded[1].kind # "header" \/ encoded[1].cut
    THEN Err("UnexpectedEof")
    ELSE DecodeSlice(encoded, hash,
                     SlicePath(encoded[1].len, slice_start, slice_len))

----------------------------------------------------------------------------
(* Outboard construction and slice proofs, src/proofs/mod.rs and           *)
(* src/eth.rs.                                                              *)

DAG_BLOCK_SIZE == 256000

\* A reader that seeks (std::fs::File, std::io::Cursor) over the bytes data.
SeekingReader(data) == [seeks |-> TRUE, data |-> data]

\* struct FakeSeeker: reads pass to the inner reader, seek does nothing.
FakeSeeker_new(data) == [seeks |-> FALSE, data |-> data]

\* A buffer of size bytes, zeroed and then filled from the front: the
\* bytes read and the zeros left behind them.
FilledBuf(bytes, size) == Concat(bytes, Zeros(Sub(size, ByteLen(bytes))))

\* The whole buffer, where the code takes the bytes read; outboard
\* equivalence is tested against it.
Written_padded(buf, bytes_read) == buf

\* &buf[..bytes_read], what gen_obao_ipfs writes to the encoder.
Written(buf, bytes_read) == ByteSlice(buf, Zero, bytes_read)

\* pub fn gen_obao(reader) -> Result<(Vec<u8>, bao::Hash)>, for a reader
\* that yields file_content up to its end.
gen_obao(file_content) == Ok(outboard(file_content))

\* gen_proof, from the pair chosen for the block hash on.
gen_proof_of(choice, file_handle, obao_handle) ==
    IF choice.tag # "Ok" THEN choice
    ELSE SliceExtractor_read_to_end(
             file_handle, obao_handle, choice.val[1], choice.val[2])

\* pub async fn gen_proof(_block_number, block_hash, file_handle,
\*                        obao_handle, file_length) -> Result<Vec<u8>>
gen_proof(block_hash, file_handle, obao_handle, file_length, oc) ==
    gen_proof_of(compute_random_block_choice_from_hash(block_hash, file_length, oc),
                 file_handle, obao_handle)

\* gen_proof_ipfs, from the return of the read on: the test of the number
\* of bytes fetched against chunk_size, and the extraction from the buffer
\* through a FakeSeeker.
gen_proof_ipfs_fetched(choice, read, obao_file) ==
    IF read.ret.tag # "Ok"
    THEN [ret |-> read.ret, choice |-> choice, fetches |-> <<read.fetch>>,
          bytes_read |-> None, input |-> None]
    ELSE IF read.ret.val # choice.val[2]
    THEN [ret |-> Err("Bytes read does not equal chunk size"),
          choice |-> choice, fetches |-> <<read.fetch>>,
          bytes_read |-> Some(read.ret.val), input |-> None]
    ELSE [ret |-> SliceExtractor_read_to_end(
                      FakeSeeker_new(ByteSlice(FilledBuf(read.buf, N(CHUNK_SIZE)),
                                               Zero, choice.val[2])),
                      obao_file, choice.val[1], choice.val[2]),
          choice |-> choice, fetches |-> <<read.fetch>>,
          bytes_read |-> Some(read.ret.val),
          input |-> Some(ByteSlice(FilledBuf(read.buf, N(CHUNK_SIZE)),
                                   Zero, choice.val[2]))]

\* gen_proof_ipfs, from the pair chosen for the block hash on: the reader
\* is made, sought to chunk_offset and read into a buffer of CHUNK_SIZE
\* bytes.
gen_proof_ipfs_of(choice, file_cid, obao_file, c, cumulative_size, oc) ==
    IF choice.tag # "Ok"
    THEN [ret |-> choice, choice |-> choice, fetches |-> <<>>,
          bytes_read |-> None, input |-> None]
    ELSE gen_proof_ipfs_fetched(
             choice,
             IpfsReader_read(
                 IpfsReader_seek(IpfsReader_new(file_cid, cumulative_size),
                                 SeekFrom_Start(choice.val[1]), oc).self,
                 N(CHUNK_SIZE), c, oc),
             obao_file)

\* pub async fn gen_proof_ipfs(block_hash, file_cid, obao_file, file_length)
\*     -> Result<Vec<u8>>, over the content c whose object_stat reports
\* cumulative_size.  Besides what the call returns: the requests sent to
\* the pair derived from the block hash, the requests sent to the
\* collaborator, the number of bytes fetched (None before the read returns)
\* and what the slice extractor was given to read (None when it did not
\* run).
gen_proof_ipfs(block_hash, file_cid, obao_file, file_length, c, cumulative_size, oc) ==
    gen_proof_ipfs_of(
        compute_random_block_choice_from_hash(block_hash, file_length, oc),
        file_cid, obao_file, c, cumulative_size, oc)

\* The position of the last byte of an encoded slice: the last item that
\* has bytes.
LastByteItem(slice) ==
    IF slice[Len(slice)].kind = "chunk" /\ slice[Len(slice)].data = <<>>
    THEN Len(slice) - 1
    ELSE Len(slice)

\* len with bit 56 flipped: the low bit of the last of the 8 little-endian
\* bytes of the length header.
FlipHeaderBit(len) ==
    IF Shr(len, U64_BITS - 8) = Shl(Shr(len, U64_BITS - 7), 1)
    THEN Add(len, Pow2(U64_BITS - 8))
    ELSE Sub(len, Pow2(U64_BITS - 8))

\* slice[last_index] ^= 1
FlipLastProofByte(slice) ==
    LET i == LastByteItem(slice)
    IN  [slice EXCEPT ![i] =
            IF @.kind = "chunk" THEN [@ EXCEPT !.data = FlipLastByte(@)]
            ELSE IF @.kind = "parent" THEN [@ EXCEPT !.right = FlipHashBit(@)]
            ELSE [@ EXCEPT !.len = FlipHeaderBit(@)]]

\* create_proof_helper, from the return of gen_proof on: the result is
\* unwrapped, which panics on an error, and a proof that is to be bad has
\* its last byte altered.
create_proof_helper_of(hash, slice, quality) ==
    IF slice.tag = "Panic" THEN slice
    ELSE IF slice.tag = "Err"
    THEN Panic("called Result::unwrap() on an Err value")
    ELSE Ok([hash  |-> hash,
             proof |-> IF quality THEN slice.val
                       ELSE FlipLastProofByte(slice.val)])

\* pub async fn create_proof_helper(&self, target_window_start, file,
\*     file_length, quality) -> Result<(bao::Hash, Bytes)>, for the block
\* hash the chain gives for target_window_start and a file of file_content.
create_proof_helper(target_block_hash, file_content, file_length, quality, oc) ==
    create_proof_helper_of(
        gen_obao(file_content).val.hash,
        gen_proof(target_block_hash, SeekingReader(file_content),
                  gen_obao(file_content).val.obao, file_length, oc),
        quality)

\* A verifier whose decoder's failure is its own failure; the verifier's
\* promise never to fail is tested against it.
check_if_merkle_proof_is_valid_propagating(proof_bytes, blake3_checksum, chunk_offset, chunk_size) ==
    SliceDecoder_read_to_end(proof_bytes, blake3_checksum, chunk_offset, chunk_size)

\* pub fn check_if_merkle_proof_is_valid(proof_bytes, blake3_checksum,
\*     chunk_offset, chunk_size) -> Result<bool>
check_if_merkle_proof_is_valid(proof_bytes, blake3_checksum, chunk_offset, chunk_size) ==
    Ok(SliceDecoder_read_to_end(
           proof_bytes, blake3_checksum, chunk_offset, chunk_size).tag = "Ok")

----------------------------------------------------------------------------
(* The chain client, src/eth.rs.  The contract is not part of the program: *)
(* what it does with a transaction is the chain's choice, and the client   *)
(* sees the receipt.                                                       *)

WORD == 32

\* A chain with no block, no record and no log.
NoChain == [height |-> Zero, proofs |-> {}, logs |-> <<>>]

\* What the chain may do with a saveProof transaction the client sends:
\* fail to take it, drop it (no receipt), mine it in the next block with
\* the contract recording the proof and logging it, or mine it with the
\* contract reverting.
TxOutcomes == {"failed", "dropped", "recorded", "reverted"}

\* The data of the event the contract logs for a proof of proof_len bytes
\* (ABI encoding of one bytes value): a word that points to the value, a
\* word with its length, and the value padded to whole words.  len is the
\* number of bytes of the data and size the number its second word holds.
ProofLogData(proof_len) ==
    [len  |-> Add(N(2 * WORD), MulSmall(CeilDiv(proof_len, N(WORD)), WORD)),
     size |-> proof_len]

\* The chain after a saveProof transaction for the proof has met outcome.
\* A mined transaction is in the block after the latest.
saveProof(c, proof, outcome) ==
    IF outcome \in {"failed", "dropped"} THEN c
    ELSE IF outcome = "reverted" THEN [c EXCEPT !.height = Add(c.height, One)]
    ELSE [height |-> Add(c.height, One),
          proofs |-> {r \in c.proofs : ~(/\ r.deal_id = proof.deal_id
                                         /\ r.target_block_start = proof.target_block_start)}
                     \cup {[deal_id |-> proof.deal_id,
                            target_block_start |-> proof.target_block_start,
                            block |-> Add(c.height, One)]},
          logs   |-> Append(c.logs, [block  |-> Add(c.height, One),
                                     topic1 |-> proof.deal_id,
                                     data   |-> ProofLogData(proof.bao_proof_data.len)])]

\* pub async fn post_proof(&self, deal_id, bao_proof_data, target_block_start,
\*     gas_limit, gas_price) -> Result<BlockNum>, on the chain c that meets
\* the transaction with outcome: what the call returns, the chain after it
\* and the transactions it sent.  The receipt of a mined transaction holds
\* the number of its block whether the contract recorded or reverted; the
\* receipt's status is not looked at.
post_proof(has_signer, c, deal_id, bao_proof_data, target_block_start, outcome) ==
    LET proof == [bao_proof_data |-> bao_proof_data, deal_id |-> deal_id,
                  target_block_start |-> target_block_start]
    IN  IF ~has_signer THEN [ret |-> Err("No signer available"), chain |-> c, sent |-> <<>>]
        ELSE IF outcome = "failed"
        THEN [ret |-> Err("Error signing transaction"), chain |-> c, sent |-> <<proof>>]
        ELSE IF outcome = "dropped"
        THEN [ret |-> Panic("called Option::unwrap() on a None value"),
              chain |-> c, sent |-> <<proof>>]
        ELSE [ret |-> Ok(Add(c.height, One)), chain |-> saveProof(c, proof, outcome),
              sent |-> <<proof>>]

\* The U256 the contract's getProofBlock may answer for a deal: 0 when it
\* has no proof for the window, or the block of a proof it has recorded for
\* the deal.
getProofBlock(c, deal_id) ==
    {Zero} \cup {r.block : r \in {q \in c.proofs : q.deal_id = deal_id}}

\* pub async fn get_proof_block_num_from_window(&self, deal_id, window_num)
\*     -> Result<Option<BlockNum>>, for the contract's answer block_num.
\* U256::as_u64 panics on a value that does not fit.
get_proof_block_num_from_window(block_num) ==
    IF ~Le(block_num, U64_MAX) THEN Panic("Integer overflow when casting to u64")
    ELSE IF block_num = Zero THEN Ok(None)
    ELSE Ok(Some(block_num))

\* get_logs_from_filter for the filter of get_proof_from_logs: the logs of
\* the block with the deal id as their first topic.
get_logs_from_filter(c, block_num, deal_id) ==
    SelectSeq(c.logs, LAMBDA l : l.block = block_num /\ l.topic1 = deal_id)

\* The bytes of a log's data.
LogBytes(data) ==
    IF data.len = Zero THEN <<>> ELSE <<[src |-> "data", lo |-> Zero, hi |-> data.len]>>

\* pub async fn get_proof_from_logs(&self, submitted_proof_in_block_num,
\*     deal_id) -> Result<Option<Vec<u8>>>, for the logs block_logs the
\* filter gives.  data_size is the last 8 bytes of the second word; the end
\* of the range is a usize sum, and a range that ends before it starts
\* panics.
get_proof_from_logs(block_logs, oc) ==
    IF block_logs = <<>>
    THEN Panic("index out of bounds: the len is 0 but the index is 0")
    ELSE IF Lt(block_logs[1].data.len, N(WORD * 2)) THEN Ok(None)
    ELSE CHOOSE v \in
        {IF end.tag # "Ok" THEN end
         ELSE IF Lt(block_logs[1].data.len, end.val) THEN Ok(None)
         ELSE IF Lt(end.val, N(WORD * 2))
         THEN Panic("slice index starts at 64 but ends before it")
         ELSE Ok(Some(ByteSlice(LogBytes(block_logs[1].data), N(WORD * 2), end.val))) :
             end \in {u64_add(N(WORD * 2), LowBits(block_logs[1].data.size, U64_BITS), oc)}} : TRUE

----------------------------------------------------------------------------
(* The calls the model makes.  Every function above is pure, so a          *)
(* behaviour is one call: the initial state chooses the function, its       *)
(* arguments and the build (overflow_checks), and the function's action     *)
(* applies it and records what the caller gets back in ret.                 *)

\* Files of up to MaxChunks whole chunks, one byte more and one byte less.
MaxChunks == 3

\* Block numbers 0..MaxBlock, besides the ones next to the u64 limits.
MaxBlock == 25

\* Window numbers 0..MaxWindowNum, besides the large ones.
MaxWindowNum == 4

\* Deal lengths 0..MaxDealLength for get_num_windows, besides the large ones.
MaxDealLength == 21

\* Window sizes 0..MaxWindowSize for get_num_windows, besides the large ones.
MaxWindowSize == 5

\* The 32 big-endian bytes of the natural v < 2^256 (H256::from_uint): byte k
\* from the least significant end is bits 8 k .. 8 k + 7 of v, cut out of the
\* (at most two) digits that hold them.
H256_from_uint(v) ==
    [i \in 1..H256_BYTES |->
        LET p == 8 * (H256_BYTES - i)
            j == p \div LimbBits
        IN  ((Limb(v, j + 1) + Base * Limb(v, j + 2)) \div 2^(p % LimbBits)) % 256]

HashValues ==
    {N(0), N(1), N(2), N(3), N(379), N(16383), N(16384), N(16385),
     Pow2(64), Add(Pow2(64), One), Add(Pow2(64), N(2)), Add(Pow2(128), One),
     Add(Pow2(255), N(5)), Sub(Pow2(256), One)}

BlockHashes == {H256_from_uint(v) : v \in HashValues}

FileLengths ==
    {N(n) : n \in {k * CHUNK_SIZE + d : k \in 0..MaxChunks, d \in {-1, 0, 1}} \ {-1}}
    \cup {Sub(Pow2(24), One), Pow2(24), Add(Pow2(24), One), Add(Pow2(24), N(2)),
          Add(Pow2(24), N(1025)), Add(Pow2(25), N(1026)), Add(Pow2(32), One),
          Add(Pow2(34), N(3072)), Add(Pow2(35), N(2049)), U64_MAX}

BlockNums == {N(n) : n \in 0..MaxBlock} \cup {Sub(U64_MAX, One), U64_MAX}

DealInfos ==
    [deal_start_block : {N(0), N(3), Sub(U64_MAX, One)},
     deal_length_in_blocks : {N(0), N(1), N(20), N(21), U64_MAX},
     proof_frequency_in_blocks : {N(0), N(1), N(3), N(5), Pow2(63)}]

WindowNums == {N(n) : n \in 0..MaxWindowNum} \cup {Pow2(62), U64_MAX}

DealLengths ==
    {N(n) : n \in 0..MaxDealLength}
    \cup {Pow2(53), Add(Pow2(53), One), Add(Pow2(53), N(3)), Add(Pow2(54), One),
          Add(Pow2(54), N(2)), Add(Pow2(54), N(3)), Sub(U64_MAX, N(1023)), U64_MAX}

WindowSizes == {N(n) : n \in 0..MaxWindowSize} \cup {Add(Pow2(53), One)}

\* Nothing is read from the remote content.
NoRemote ==
    /\ content = [cid |-> "", len |-> Zero]
    /\ reader = NoReader
    /\ fetches = <<>>
    /\ trace = <<>>
    /\ frame = [pc |-> "none"]

Init ==
    /\ overflow_checks \in BOOLEAN
    /\ ret = Pending
    /\ NoRemote
    /\ \/ call \in [fn : {"get_num_chunks"}, size : FileLengths]
       \/ call \in [fn : {"compute_random_block_choice_from_hash"},
                    block_hash : BlockHashes, file_length : FileLengths]
       \/ call \in [fn : {"get_the_current_window"},
                    deal_info : DealInfos, current_block_num : BlockNums]
       \/ call \in [fn : {"get_the_next_window"},
                    deal_info : DealInfos, last_submission : BlockNums]
       \/ call \in [fn : {"get_final_block"}, self : DealInfos]
       \/ call \in [fn : {"EthClient::deal_over"},
                    current_block_num : BlockNums, deal_info : DealInfos]
       \/ call \in [fn : {"get_num_windows"},
                    deal_length : DealLengths, window_size : WindowSizes]
       \/ call \in [fn : {"compute_target_block_start"},
                    deal_start_block : {N(0), N(3), U64_MAX},
                    proof_frequency_in_blocks : {N(0), N(1), N(5), Pow2(63)},
                    target_window_num : WindowNums]
       \/ call \in [fn : {"EthClient::compute_target_window"},
                    deal_start_block : {N(0), N(3), Sub(U64_MAX, One)},
                    proof_frequency_in_blocks : {N(0), N(1), N(3), N(5), Pow2(63)}]
    /\ chain \in IF call.fn = "EthClient::compute_target_window"
                 THEN {[NoChain EXCEPT !.height = n] : n \in BlockNums}
                 ELSE {NoChain}

GetNumChunks ==
    /\ call.fn = "get_num_chunks"
    /\ ret = Pending
    /\ ret' = Ok(get_num_chunks(call.size))
    /\ UNCHANGED <<chain, call, overflow_checks, remote>>

ComputeRandomBlockChoiceFromHash ==
    /\ call.fn = "compute_random_block_choice_from_hash"
    /\ ret = Pending
    /\ ret' = compute_random_block_choice_from_hash(
                  call.block_hash, call.file_length, overflow_checks)
    /\ UNCHANGED <<chain, call, overflow_checks, remote>>

GetTheCurrentWindow ==
    /\ call.fn = "get_the_current_window"
    /\ ret = Pending
    /\ ret' = get_the_current_window(
                  call.deal_info, call.current_block_num, overflow_checks)
    /\ UNCHANGED <<chain, call, overflow_checks, remote>>

GetTheNextWindow ==
    /\ call.fn = "get_the_next_window"
    /\ ret = Pending
    /\ ret' = get_the_next_window(
                  call.deal_info, call.last_submission, overflow_checks)
    /\ UNCHANGED <<chain, call, overflow_checks, remote>>

GetFinalBlock ==
    /\ call.fn = "get_final_block"
    /\ ret = Pending
    /\ ret' = get_final_block(call.self, overflow_checks)
    /\ UNCHANGED <<chain, call, overflow_checks, remote>>

DealOver ==
    /\ call.fn = "EthClient::deal_over"
    /\ ret = Pending
    /\ ret' = deal_over(call.current_block_num, call.deal_info, overflow_checks)
    /\ UNCHANGED <<chain, call, overflow_checks, remote>>

GetNumWindows ==
    /\ call.fn = "get_num_windows"
    /\ ret = Pending
    /\ ret' = get_num_windows(call.deal_length, call.window_size)
    /\ UNCHANGED <<chain, call, overflow_checks, remote>>

ComputeTargetBlockStart ==
    /\ call.fn = "compute_target_block_start"
    /\ ret = Pending
    /\ ret' = compute_target_block_start(
                  call.deal_start_block, call.proof_frequency_in_blocks,
                  call.target_window_num, overflow_checks)
    /\ UNCHANGED <<chain, call, overflow_checks, remote>>

\* The provider answers get_latest_block_num with the number of the chain's
\* latest block, or fails to answer.
ComputeTargetWindow ==
    /\ call.fn = "EthClient::compute_target_window"
    /\ ret = Pending
    /\ \E latest \in {Ok(chain.height), Err("provider")} :
           ret' = compute_target_window(latest, call.deal_start_block,
                                        call.proof_frequency_in_blocks,
                                        overflow_checks)
    /\ UNCHANGED <<chain, call, overflow_checks, remote>>

Next ==
    \/ GetNumChunks
    \/ ComputeRandomBlockChoiceFromHash
    \/ GetTheCurrentWindow
    \/ GetTheNextWindow
    \/ GetFinalBlock
    \/ DealOver
    \/ GetNumWindows
    \/ ComputeTargetBlockStart
    \/ ComputeTargetWindow

Spec == Init /\ [][Next]_vars

----------------------------------------------------------------------------
(* Calls on one IpfsReader.  A behaviour opens a reader on the content the  *)
(* collaborator holds and makes up to MaxOps seek and read calls on it, in  *)
(* any order; call and ret are the latest call and what it returned.  A     *)
(* panic unwinds the caller, and the reader is not used again.              *)

\* Contents of 0..MaxContentLen bytes.
MaxContentLen == 2

\* Absolute seek targets 0..MaxSeek, besides the ones next to the i64 and u64
\* limits.
MaxSeek == 1

\* Relative seek distances -MaxDelta..MaxDelta, besides the i64 limits.
MaxDelta == 1

\* Read buffers of 0..MaxBufLen bytes.
MaxBufLen == 2

\* The number of calls made on the reader.
MaxOps == 2

Contents == [cid : {"Qm"}, len : {N(n) : n \in 0..MaxContentLen}]

\* What object_stat may report as the cumulative size of content c: the
\* size of the DAG object that holds it, which is its length, or more by the
\* DAG's framing; and the largest u64.
CumulativeSizes(c) == {c.len, Add(c.len, N(8)), U64_MAX}

SeekDeltas ==
    {Int64(neg, N(n)) : neg \in BOOLEAN, n \in 0..MaxDelta}
    \cup {Int64(TRUE, Pow2(I64_BITS - 1)), Int64(FALSE, Sub(Pow2(I64_BITS - 1), One))}

SeekPositions ==
    {SeekFrom_Start(n) : n \in {N(k) : k \in 0..MaxSeek}
                                \cup {Sub(Pow2(I64_BITS - 1), One), Pow2(I64_BITS - 1),
                                      U64_MAX}}
    \cup {SeekFrom_Current(d) : d \in SeekDeltas}
    \cup {SeekFrom_End(d) : d \in SeekDeltas}

BufLens == {N(n) : n \in 0..MaxBufLen}

ReaderInit ==
    /\ overflow_checks \in BOOLEAN
    /\ chain = NoChain
    /\ content \in Contents
    /\ \E size \in CumulativeSizes(content) :
           reader = IpfsReader_new(content.cid, size)
    /\ call = [fn |-> "IpfsReader::new", cid |-> content.cid]
    /\ ret = Pending
    /\ fetches = <<>>
    /\ trace = <<>>
    /\ frame = [pc |-> "none", buf |-> <<>>]

\* The reader may be called once more.
ReaderUsable == Len(trace) < MaxOps /\ ret.tag # "Panic"

Seek(pos) ==
    LET r == IpfsReader_seek(reader, pos, overflow_checks)
        c == [fn |-> "IpfsReader::seek", self |-> reader, pos |-> pos]
    IN  /\ ReaderUsable
        /\ call' = c
        /\ ret' = r.ret
        /\ reader' = r.self
        /\ trace' = Append(trace, [call |-> c, ret |-> r.ret])
        /\ UNCHANGED <<chain, overflow_checks, content, fetches, frame>>

Read(buf_len) ==
    LET r == IpfsReader_read(reader, buf_len, content, overflow_checks)
        c == [fn |-> "IpfsReader::read", self |-> reader, buf_len |-> buf_len]
    IN  /\ ReaderUsable
        /\ call' = c
        /\ ret' = r.ret
        /\ reader' = r.self
        /\ fetches' = Append(fetches, r.fetch)
        /\ frame' = [pc |-> "none", buf |-> r.buf]
        /\ trace' = Append(trace, [call |-> c, ret |-> r.ret])
        /\ UNCHANGED <<chain, overflow_checks, content>>

ReaderSeek == \E pos \in SeekPositions : Seek(pos)

ReaderRead == \E buf_len \in BufLens : Read(buf_len)

ReaderNext == ReaderSeek \/ ReaderRead

ReaderSpec == ReaderInit /\ [][ReaderNext]_vars

----------------------------------------------------------------------------
(* A second specification of calls: building the outboard encoding,        *)
(* generating a slice proof and verifying it.  A behaviour is either the   *)
(* local sequence of the tests of src/eth.rs (create_proof_helper, then    *)
(* check_if_merkle_proof_is_valid) or the remote one (gen_obao_ipfs, whose *)
(* loop is taken read by read, then gen_proof_ipfs, then the check).       *)

\* Contents of up to MaxProofChunks whole chunks, one byte more and one less.
MaxProofChunks == 3

\* Contents of up to MaxObaoBlocks whole blocks of DAG_BLOCK_SIZE bytes, one
\* byte more and one less.
MaxObaoBlocks == 2

ProofLengths ==
    {N(n) : n \in ({k * CHUNK_SIZE + d : k \in 0..MaxProofChunks, d \in {-1, 0, 1}}
                   \cup {k * DAG_BLOCK_SIZE + d : k \in 1..MaxObaoBlocks, d \in {-1, 0, 1}})
                  \ {-1}}

\* The contents read remotely, among them one whose length is not a
\* 32-bit float.
RemoteContents == [cid : {"Qm"}, len : ProofLengths \cup {Add(Pow2(24), One)}]

\* The files read locally, among them a longer one.
LocalContents == RemoteContents \cup [cid : {"Qm"}, len : {Add(Pow2(35), N(2049))}]

ProofHashValues ==
    {N(0), N(1), N(3), N(16383), Add(Pow2(25), N(3))}

ProofBlockHashes == {H256_from_uint(v) : v \in ProofHashValues}

\* The file length a deal records for the content c: its length, or more.
ProofFileLengths(c) == {c.len, Add(c.len, N(CHUNK_SIZE))}

ProofInit ==
    /\ overflow_checks \in BOOLEAN
    /\ chain = NoChain
    /\ ret = Pending
    /\ reader = NoReader
    /\ fetches = <<>>
    /\ trace = <<>>
    /\ frame = [pc |-> "start", encoder |-> Encoder_new_outboard, buf |-> <<>>,
                bytes_read |-> Zero, encoded |-> None, proved |-> None,
                checked |-> None]
    /\ \/ /\ content \in LocalContents
          /\ call \in [fn : {"create_proof_helper"},
                       target_block_hash : ProofBlockHashes,
                       file_length : ProofFileLengths(content),
                       quality : BOOLEAN]
       \/ /\ content \in RemoteContents
          /\ call = [fn |-> "gen_obao_ipfs", cid |-> content.cid]

\* create_proof_helper rewinds the file, so gen_obao reads all of it.
CreateProofHelper ==
    /\ call.fn = "create_proof_helper"
    /\ ret = Pending
    /\ ret' = create_proof_helper(call.target_block_hash, Bytes(Zero, content.len),
                                  call.file_length, call.quality, overflow_checks)
    /\ frame' = [frame EXCEPT
           !.pc = "proved",
           !.encoded = Some(gen_obao(Bytes(Zero, content.len)).val),
           !.proved = Some([by |-> "gen_proof",
                            block_hash |-> call.target_block_hash,
                            file_length |-> call.file_length,
                            quality |-> call.quality,
                            choice |-> None,
                            bytes_read |-> None, input |-> None])]
    /\ UNCHANGED <<chain, call, overflow_checks, content, reader, fetches, trace>>

\* gen_obao_ipfs up to its loop: the encoder and the reader are made.
GenObaoIpfsNew ==
    /\ call.fn = "gen_obao_ipfs"
    /\ frame.pc = "start"
    /\ \E cumulative_size \in CumulativeSizes(content) :
           reader' = IpfsReader_new(call.cid, cumulative_size)
    /\ frame' = [frame EXCEPT !.pc = "read", !.encoder = Encoder_new_outboard]
    /\ UNCHANGED <<chain, call, overflow_checks, ret, content, fetches, trace>>

\* The loop's read into a zeroed buffer of DAG_BLOCK_SIZE bytes and the
\* test that follows it: an error ends the call, no bytes end the loop.
GenObaoIpfsRead ==
    /\ call.fn = "gen_obao_ipfs"
    /\ frame.pc = "read"
    /\ \E r \in {IpfsReader_read(reader, N(DAG_BLOCK_SIZE), content, overflow_checks)} :
           /\ reader' = r.self
           /\ fetches' = Append(fetches, r.fetch)
           /\ IF r.ret.tag # "Ok"
              THEN /\ ret' = r.ret
                   /\ frame' = [frame EXCEPT !.pc = "done"]
              ELSE /\ ret' = ret
                   /\ frame' = [frame EXCEPT
                          !.pc = IF r.ret.val = Zero THEN "finalize" ELSE "write",
                          !.buf = FilledBuf(r.buf, N(DAG_BLOCK_SIZE)),
                          !.bytes_read = r.ret.val]
    /\ UNCHANGED <<chain, call, overflow_checks, content, trace>>

\* encoder.write_all(&buf[..bytes_read])
GenObaoIpfsWrite ==
    /\ call.fn = "gen_obao_ipfs"
    /\ frame.pc = "write"
    /\ frame' = [frame EXCEPT
           !.pc = "read",
           !.encoder = Encoder_write_all(@, Written(frame.buf, frame.bytes_read))]
    /\ UNCHANGED <<chain, call, overflow_checks, ret, content, reader, fetches, trace>>

\* encoder.finalize() and the return of gen_obao_ipfs, which drops its
\* reader.
GenObaoIpfsFinalize ==
    /\ call.fn = "gen_obao_ipfs"
    /\ frame.pc = "finalize"
    /\ ret' = Ok(Encoder_finalize(frame.encoder))
    /\ reader' = NoReader
    /\ frame' = [frame EXCEPT !.pc = "done",
                              !.encoded = Some(Encoder_finalize(frame.encoder))]
    /\ UNCHANGED <<chain, call, overflow_checks, content, fetches, trace>>

\* gen_proof_ipfs with the outboard encoding gen_obao_ipfs returned.
GenProofIpfs(block_hash, file_length, cumulative_size) ==
    /\ call.fn = "gen_obao_ipfs"
    /\ frame.pc = "done"
    /\ ret.tag = "Ok"
    /\ \E r \in {gen_proof_ipfs(block_hash, content.cid, ret.val.obao, file_length,
                                 content, cumulative_size, overflow_checks)} :
           /\ call' = [fn |-> "gen_proof_ipfs", block_hash |-> block_hash,
                       file_cid |-> content.cid, obao_file |-> ret.val.obao,
                       file_length |-> file_length]
           /\ ret' = IF r.ret.tag = "Ok"
                     THEN Ok([hash |-> frame.encoded.val.hash, proof |-> r.ret.val])
                     ELSE r.ret
           /\ fetches' = fetches \o r.fetches
           /\ frame' = [frame EXCEPT
                  !.pc = "proved",
                  !.proved = Some([by |-> "gen_proof_ipfs",
                                   block_hash |-> block_hash,
                                   file_length |-> file_length,
                                   quality |-> TRUE,
                                   choice |-> r.choice,
                                   bytes_read |-> r.bytes_read,
                                   input |-> r.input])]
    /\ UNCHANGED <<chain, overflow_checks, content, reader, trace>>

GenProofIpfsCall ==
    \E block_hash \in ProofBlockHashes, file_length \in ProofFileLengths(content),
       cumulative_size \in CumulativeSizes(content) :
        GenProofIpfs(block_hash, file_length, cumulative_size)

\* The proof byte sequences handed to the verifier in place of proof: the
\* proof itself, the empty sequence, the proof without its last item or
\* without the end of its last item, with a byte after its end, with the
\* last byte altered, and with a chaining value of its first parent node
\* altered.
ProofVariants(proof) ==
    {[kind |-> "intact", bytes |-> proof],
     [kind |-> "empty", bytes |-> <<>>],
     [kind |-> "truncated", bytes |-> SubSeq(proof, 1, Len(proof) - 1)],
     [kind |-> "cut", bytes |-> [proof EXCEPT ![Len(proof)].cut = TRUE]],
     [kind |-> "over-long", bytes |-> Append(proof, ChunkItem(Zeros(One)))],
     [kind |-> "flipped", bytes |-> FlipLastProofByte(proof)]}
    \cup {[kind |-> "wrong digest", bytes |-> [proof EXCEPT ![2].left = FlipHashBit(@)]] :
              x \in {p \in {proof} : Len(p) > 2}}

\* The root digests handed to the verifier: the one of the outboard
\* encoding and another one.
RootVariants(hash) ==
    {[kind |-> "root", hash |-> hash],
     [kind |-> "other", hash |-> FlipHashBit(hash)]}

\* The (chunk_offset, chunk_size) handed to the verifier: the pair derived
\* from the block hash and the file length, as the tests derive it, the
\* chunk after it, and the largest pair.
RangeVariants(choice) ==
    {[kind |-> "derived", chunk_offset |-> choice[1], chunk_size |-> choice[2]],
     [kind |-> "next", chunk_offset |-> LowBits(Add(choice[1], N(CHUNK_SIZE)), U64_BITS),
      chunk_size |-> choice[2]],
     [kind |-> "largest", chunk_offset |-> U64_MAX, chunk_size |-> U64_MAX]}

CheckIfMerkleProofIsValid(proof, root, range) ==
    /\ frame.pc = "proved"
    /\ ret.tag = "Ok"
    /\ call' = [fn |-> "check_if_merkle_proof_is_valid",
                proof_bytes |-> proof.bytes, blake3_checksum |-> root.hash,
                chunk_offset |-> range.chunk_offset, chunk_size |-> range.chunk_size]
    /\ ret' = check_if_merkle_proof_is_valid(
                  proof.bytes, root.hash, range.chunk_offset, range.chunk_size)
    /\ frame' = [frame EXCEPT
           !.pc = "checked",
           !.checked = Some([proof |-> proof.kind, root |-> root.kind,
                             range |-> range.kind, made |-> ret.val.proof])]
    /\ UNCHANGED <<chain, overflow_checks, content, reader, fetches, trace>>

\* The caller derives the pair again; the check is reached when that
\* succeeds.  The altered proofs are checked with the derived pair.
CheckProofCall ==
    /\ frame.pc = "proved"
    /\ ret.tag = "Ok"
    /\ \E choice \in {compute_random_block_choice_from_hash(
                           frame.proved.val.block_hash, frame.proved.val.file_length,
                           overflow_checks)} :
           /\ choice.tag = "Ok"
           /\ \E proof \in ProofVariants(ret.val.proof),
                 root \in RootVariants(ret.val.hash),
                 range \in RangeVariants(choice.val) :
                  /\ proof.kind = "intact" \/ range.kind = "derived"
                  /\ CheckIfMerkleProofIsValid(proof, root, range)

ProofNext ==
    \/ CreateProofHelper
    \/ GenObaoIpfsNew
    \/ GenObaoIpfsRead
    \/ GenObaoIpfsWrite
    \/ GenObaoIpfsFinalize
    \/ GenProofIpfsCall
    \/ CheckProofCall

ProofSpec == ProofInit /\ [][ProofNext]_vars

----------------------------------------------------------------------------
(* gen_obao_ipfs alone, run to its return.  The function is straight-line  *)
(* code around one loop and the collaborator answers every request, so a   *)
(* step that can be taken is taken: the next step of the call is weakly    *)
(* fair.                                                                    *)

ObaoInit ==
    /\ ProofInit
    /\ call.fn = "gen_obao_ipfs"

ObaoNext ==
    \/ GenObaoIpfsNew
    \/ GenObaoIpfsRead
    \/ GenObaoIpfsWrite
    \/ GenObaoIpfsFinalize

ObaoSpec == ObaoInit /\ [][ObaoNext]_vars /\ WF_vars(ObaoNext)

----------------------------------------------------------------------------
(* Calls on one EthClient.  A behaviour starts from a chain that has one   *)
(* block, with no log or with one log of the contract, and makes up to     *)
(* MaxChainCalls calls on the client; trace holds the calls and what they  *)
(* returned, fetches the transactions sent to the chain, and frame the     *)
(* client.                                                                  *)

\* The number of calls made on the client.
MaxChainCalls == 2

\* The deals 1..MaxDealId.
MaxDealId == 2

DealIds == {N(n) : n \in 1..MaxDealId}

\* A proof of 1672 bytes, as the test post_proof_to_chain expects.
ProofArtifacts == {[bytes |-> "proof", len |-> N(1672)]}

TargetBlockStarts == {N(10), N(20)}

\* The data of a log the chain may hold: too short for two words, or two
\* words and more with a second word that is within the data, beyond it, at
\* the limit of 64 bits, or with bits above the low 64.
LogDatas ==
    [len : {N(0), N(WORD * 2 - 1)}, size : {Zero}]
    \cup [len  : {N(WORD * 2), N(WORD * 2 + 1), N(WORD * 3)},
          size : {N(0), N(1), N(WORD), N(WORD + 1), Sub(U64_MAX, N(WORD * 2 - 1)),
                  U64_MAX, Add(Pow2(U64_BITS), One)}]

ChainInit ==
    /\ overflow_checks \in BOOLEAN
    /\ call = [fn |-> "EthClient::new"]
    /\ ret = Pending
    /\ content = [cid |-> "", len |-> Zero]
    /\ reader = NoReader
    /\ fetches = <<>>
    /\ trace = <<>>
    /\ frame \in [pc : {"none"}, has_signer : BOOLEAN]
    /\ \/ chain = [NoChain EXCEPT !.height = One]
       \/ \E deal_id \in DealIds, data \in LogDatas :
              chain = [NoChain EXCEPT
                          !.height = One,
                          !.logs = <<[block |-> One, topic1 |-> deal_id, data |-> data]>>]

\* The client may be called once more.
ClientUsable == Len(trace) < MaxChainCalls /\ ret.tag # "Panic"

\* The call c returns r.
Returned(c, r) ==
    /\ call' = c
    /\ ret' = r
    /\ trace' = Append(trace, [call |-> c, ret |-> r])

PostProof(deal_id, bao_proof_data, target_block_start, outcome) ==
    /\ ClientUsable
    /\ \E r \in {post_proof(frame.has_signer, chain, deal_id, bao_proof_data,
                            target_block_start, outcome)} :
           /\ Returned([fn |-> "post_proof", deal_id |-> deal_id,
                        bao_proof_data |-> bao_proof_data,
                        target_block_start |-> target_block_start], r.ret)
           /\ chain' = r.chain
           /\ fetches' = fetches \o r.sent
    /\ UNCHANGED <<overflow_checks, content, reader, frame>>

PostProofCall ==
    \E deal_id \in DealIds, bao_proof_data \in ProofArtifacts,
       target_block_start \in TargetBlockStarts, outcome \in TxOutcomes :
        PostProof(deal_id, bao_proof_data, target_block_start, outcome)

GetProofBlockNumFromWindow(deal_id, window_num, block_num) ==
    /\ ClientUsable
    /\ Returned([fn |-> "get_proof_block_num_from_window", deal_id |-> deal_id,
                 window_num |-> window_num],
                get_proof_block_num_from_window(block_num))
    /\ UNCHANGED <<overflow_checks, content, reader, fetches, frame, chain>>

GetProofBlockNumFromWindowCall ==
    \E deal_id \in DealIds, window_num \in {Zero, One} :
        \E block_num \in getProofBlock(chain, deal_id) :
            GetProofBlockNumFromWindow(deal_id, window_num, block_num)

GetProofFromLogs(submitted_proof_in_block_num, deal_id) ==
    /\ ClientUsable
    /\ Returned([fn |-> "get_proof_from_logs",
                 submitted_proof_in_block_num |-> submitted_proof_in_block_num,
                 deal_id |-> deal_id,
                 block_logs |-> get_logs_from_filter(
                                    chain, submitted_proof_in_block_num, deal_id)],
                get_proof_from_logs(
                    get_logs_from_filter(chain, submitted_proof_in_block_num, deal_id),
                    overflow_checks))
    /\ UNCHANGED <<overflow_checks, content, reader, fetches, frame, chain>>

GetProofFromLogsCall ==
    \E submitted_proof_in_block_num \in {One, chain.height}, deal_id \in DealIds :
        GetProofFromLogs(submitted_proof_in_block_num, deal_id)

ChainNext ==
    \/ PostProofCall
    \/ GetProofBlockNumFromWindowCall
    \/ GetProofFromLogsCall

ChainSpec == ChainInit /\ [][ChainNext]_vars

----------------------------------------------------------------------------
(* Two invocations at once, of gen_proof_ipfs or gen_obao_ipfs, on the     *)
(* same content.  Each takes its steps (making its reader, seeking,        *)
(* reading, writing to its encoder, returning) in any interleaving with    *)
(* the other's.  frame holds the locals of each invocation, fetches the    *)
(* range requests of both in the order they were sent.                     *)

Invocations == {1, 2}

\* The block hashes the concurrent proofs are made for.
ConcurrentHashValues == {N(1), N(3)}

\* Contents of 1..MaxProofChunks chunks and of 1..MaxObaoBlocks blocks, each
\* with one byte more.
ConcurrentContents ==
    [cid : {"Qm"},
     len : {N(k * CHUNK_SIZE + 1) : k \in 1..MaxProofChunks}
           \cup {N(k * DAG_BLOCK_SIZE + 1) : k \in 1..MaxObaoBlocks}]

\* The locals of an invocation of fn that has not taken a step; block_hash
\* is None for gen_obao_ipfs.
Invoked(fn, block_hash, cumulative_size) ==
    [fn |-> fn, block_hash |-> block_hash, cumulative_size |-> cumulative_size,
     pc |-> "new", choice |-> None, ipfs_file |-> NoReader,
     encoder |-> Encoder_new_outboard, buf |-> <<>>, bytes_read |-> Zero,
     fetches |-> <<>>, ret |-> Pending]

ConcurrentInit ==
    /\ overflow_checks \in BOOLEAN
    /\ chain = NoChain
    /\ call = [fn |-> "concurrent"]
    /\ ret = Pending
    /\ reader = NoReader
    /\ fetches = <<>>
    /\ trace = <<>>
    /\ content \in ConcurrentContents
    /\ \E cumulative_size \in CumulativeSizes(content) :
           frame \in [Invocations ->
                         {Invoked("gen_obao_ipfs", None, cumulative_size)}
                         \cup {Invoked("gen_proof_ipfs", Some(H256_from_uint(v)),
                                       cumulative_size) : v \in ConcurrentHashValues}]

\* The reader a step of invocation p works on, with the cursor of p's
\* reader for every invocation: one cursor that all of them move.  The
\* independence of concurrent invocations is tested against it.
OwnReader_shared(f, p) == f[1].ipfs_file

\* The reader a step of invocation p works on: the one p made
\* (let mut ipfs_file = IpfsReader::new(..)), which no other invocation has.
OwnReader(f, p) == f[p].ipfs_file

\* IpfsReader::new in invocation p; gen_proof_ipfs has derived its
\* (chunk_offset, chunk_size) before, and returns at once if that panicked.
InvocationNew(p) ==
    /\ frame[p].pc = "new"
    /\ \E choice \in {IF frame[p].fn = "gen_obao_ipfs" THEN None
                      ELSE compute_random_block_choice_from_hash(
                               frame[p].block_hash.val, content.len, overflow_checks)} :
           frame' = [frame EXCEPT
               ![p].choice = choice,
               ![p].ipfs_file = IpfsReader_new(content.cid, frame[p].cumulative_size),
               ![p].pc = IF frame[p].fn = "gen_obao_ipfs" THEN "read"
                         ELSE IF choice.tag = "Ok" THEN "seek" ELSE "done",
               ![p].ret = IF frame[p].fn = "gen_obao_ipfs" \/ choice.tag = "Ok"
                          THEN Pending ELSE choice]
    /\ UNCHANGED <<chain, call, overflow_checks, ret, content, reader, fetches, trace>>

\* gen_proof_ipfs: ipfs_file.seek(SeekFrom::Start(chunk_offset))
InvocationSeek(p) ==
    /\ frame[p].pc = "seek"
    /\ \E r \in {IpfsReader_seek(OwnReader(frame, p),
                                 SeekFrom_Start(frame[p].choice.val[1]), overflow_checks)} :
           frame' = [frame EXCEPT ![p].ipfs_file = r.self, ![p].pc = "read"]
    /\ UNCHANGED <<chain, call, overflow_checks, ret, content, reader, fetches, trace>>

\* gen_proof_ipfs: the read into a buffer of CHUNK_SIZE bytes, and from its
\* return to the end of the function.
InvocationProofRead(p) ==
    /\ frame[p].pc = "read"
    /\ frame[p].fn = "gen_proof_ipfs"
    /\ \E r \in {IpfsReader_read(OwnReader(frame, p), N(CHUNK_SIZE), content,
                                 overflow_checks)} :
           /\ frame' = [frame EXCEPT
                  ![p].ipfs_file = r.self,
                  ![p].bytes_read = IF r.ret.tag = "Ok" THEN r.ret.val ELSE Zero,
                  ![p].buf = r.buf,
                  ![p].fetches = Append(@, r.fetch),
                  ![p].pc = "done",
                  ![p].ret = gen_proof_ipfs_fetched(
                                 frame[p].choice, r,
                                 outboard(Bytes(Zero, content.len)).obao).ret]
           /\ fetches' = Append(fetches, r.fetch)
    /\ UNCHANGED <<chain, call, overflow_checks, ret, content, reader, trace>>

\* gen_obao_ipfs: the loop's read into a buffer of DAG_BLOCK_SIZE bytes and
\* the test that follows it.
InvocationObaoRead(p) ==
    /\ frame[p].pc = "read"
    /\ frame[p].fn = "gen_obao_ipfs"
    /\ \E r \in {IpfsReader_read(OwnReader(frame, p), N(DAG_BLOCK_SIZE), content,
                                 overflow_checks)} :
           /\ frame' = [frame EXCEPT
                  ![p].ipfs_file = r.self,
                  ![p].bytes_read = IF r.ret.tag = "Ok" THEN r.ret.val ELSE Zero,
                  ![p].buf = FilledBuf(r.buf, N(DAG_BLOCK_SIZE)),
                  ![p].fetches = Append(@, r.fetch),
                  ![p].pc = IF r.ret.tag # "Ok" THEN "done"
                            ELSE IF r.ret.val = Zero THEN "finalize" ELSE "write",
                  ![p].ret = IF r.ret.tag # "Ok" THEN r.ret ELSE Pending]
           /\ fetches' = Append(fetches, r.fetch)
    /\ UNCHANGED <<chain, call, overflow_checks, ret, content, reader, trace>>

\* gen_obao_ipfs: encoder.write_all(&buf[..bytes_read])
InvocationObaoWrite(p) ==
    /\ frame[p].pc = "write"
    /\ frame' = [frame EXCEPT
           ![p].pc = "read",
           ![p].encoder = Encoder_write_all(@, Written(frame[p].buf, frame[p].bytes_read))]
    /\ UNCHANGED <<chain, call, overflow_checks, ret, content, reader, fetches, trace>>

\* gen_obao_ipfs: encoder.finalize() and the return.
InvocationObaoFinalize(p) ==
    /\ frame[p].pc = "finalize"
    /\ frame' = [frame EXCEPT ![p].pc = "done",
                              ![p].ret = Ok(Encoder_finalize(frame[p].encoder))]
    /\ UNCHANGED <<chain, call, overflow_checks, ret, content, reader, fetches, trace>>

ConcurrentNext ==
    \/ \E p \in Invocations : InvocationNew(p)
    \/ \E p \in Invocations : InvocationSeek(p)
    \/ \E p \in Invocations : InvocationProofRead(p)
    \/ \E p \in Invocations : InvocationObaoRead(p)
    \/ \E p \in Invocations : InvocationObaoWrite(p)
    \/ \E p \in Invocations : InvocationObaoFinalize(p)

ConcurrentSpec == ConcurrentInit /\ [][ConcurrentNext]_vars

----------------------------------------------------------------------------
(* The windows of one deal, walked with get_the_next_window: the first     *)
(* call is made with last_submission = deal_start_block, and every Some(t)  *)
(* it returns is the last_submission of the next call.  The walk is         *)
(* sequential code, so a step that can be taken is taken: the next step is  *)
(* weakly fair.  frame.visited holds the window starts seen so far.         *)

\* Deals of a few windows, from the first block, from a later one and from
\* one next to the u64 limit, besides the longest deal in its two windows
\* of 2^63 blocks.
WindowDeals ==
    [deal_start_block : {N(0), N(3), Sub(U64_MAX, One)},
     deal_length_in_blocks : {N(1), N(20), N(21)},
     proof_frequency_in_blocks : {N(1), N(3), N(5), Pow2(63)}]
    \cup [deal_start_block : {N(0), N(3)},
          deal_length_in_blocks : {U64_MAX},
          proof_frequency_in_blocks : {Pow2(63)}]

WindowInit ==
    /\ overflow_checks \in BOOLEAN
    /\ chain = NoChain
    /\ \E deal_info \in WindowDeals :
           /\ call = [fn |-> "get_the_next_window", deal_info |-> deal_info,
                      last_submission |-> deal_info.deal_start_block]
           /\ frame = [pc |-> "walk", visited |-> {deal_info.deal_start_block}]
    /\ ret = Pending
    /\ content = [cid |-> "", len |-> Zero]
    /\ reader = NoReader
    /\ fetches = <<>>
    /\ trace = <<>>

\* The Some(t) returned is fed back: the next call is made with
\* last_submission = t.  After None, or a panic, no call follows.
FeedBack ==
    /\ call.fn = "get_the_next_window"
    /\ frame.pc = "walk"
    /\ ret.tag = "Some"
    /\ call' = [call EXCEPT !.last_submission = ret.val]
    /\ frame' = [frame EXCEPT !.visited = @ \cup {ret.val}]
    /\ ret' = Pending
    /\ UNCHANGED <<chain, overflow_checks, content, reader, fetches, trace>>

WindowNext ==
    \/ GetTheNextWindow
    \/ FeedBack

WindowSpec == WindowInit /\ [][WindowNext]_vars /\ WF_vars(WindowNext)

----------------------------------------------------------------------------
(* Properties.  Each is stated on the state after the call: ret holds what *)
(* the caller got back for the arguments in call.                          *)

\* The call to f has been made.
Called(f) == call.fn = f /\ ret # Pending

\* C1: for every block hash and every file_length > 0,
\* compute_random_block_choice_from_hash returns (chunk_offset, chunk_size)
\* with chunk_offset a multiple chunk_index * 1024 of the chunk size,
\* chunk_size = file_length - chunk_offset when chunk_index is the final chunk
\* ceil(file_length / 1024) - 1, and chunk_size = 1024 otherwise.
ChunkOffsetAndSizeInvariant ==
    (Called("compute_random_block_choice_from_hash") /\ call.file_length # Zero) =>
        /\ ret.tag = "Ok"
        /\ LET chunk_offset == ret.val[1]
               chunk_size   == ret.val[2]
               chunk_index  == DivMod(chunk_offset, N(CHUNK_SIZE))
               final        == Sub(CeilDiv(call.file_length, N(CHUNK_SIZE)), One)
           IN  /\ chunk_index.rem = Zero
               /\ IF chunk_index.quot = final
                  THEN /\ Le(chunk_offset, call.file_length)
                       /\ chunk_size = Sub(call.file_length, chunk_offset)
                  ELSE chunk_size = N(CHUNK_SIZE)

\* C2: the challenged chunk index is the full 256-bit value v of the block
\* hash reduced modulo num_chunks = ceil(file_length / 1024), so that
\* chunk_offset = (v mod num_chunks) * 1024; for file_length = 2049 the hashes
\* 0, 1, 2 and 379 give (0, 1024), (1024, 1024), (2048, 1) and (1024, 1024).
ChunkIndexIsFullHashModNumChunks ==
    (Called("compute_random_block_choice_from_hash") /\ call.file_length # Zero) =>
        \A v \in HashValues :
            call.block_hash = H256_from_uint(v) =>
                /\ ret.tag = "Ok"
                /\ ret.val[1] =
                       Mul(DivMod(v, CeilDiv(call.file_length, N(CHUNK_SIZE))).rem,
                           N(CHUNK_SIZE))
                /\ call.file_length = N(2049) =>
                       /\ v = N(0)   => ret.val = <<N(0), N(1024)>>
                       /\ v = N(1)   => ret.val = <<N(1024), N(1024)>>
                       /\ v = N(2)   => ret.val = <<N(2048), N(1)>>
                       /\ v = N(379) => ret.val = <<N(1024), N(1024)>>

\* C3: for every file size s > 0, get_num_chunks(s) is the exact ceiling of
\* s / 1024, also for sizes that f32 does not represent exactly.
NumChunksIsExactCeiling ==
    (Called("get_num_chunks") /\ call.size # Zero) =>
        ret = Ok(CeilDiv(call.size, N(CHUNK_SIZE)))

\* C4: deriving a challenge for file_length = 0 returns an EmptyContent error
\* value; it neither panics nor returns an (offset, size) pair.
EmptyContentIsRejected ==
    (Called("compute_random_block_choice_from_hash") /\ call.file_length = Zero) =>
        ret = Err("EmptyContent")

\* C5: get_the_current_window returns Future when current_block <
\* deal_start_block, Past when current_block >= deal_start_block +
\* deal_length_in_blocks, and otherwise the window start deal_start_block +
\* proof_frequency_in_blocks * ((current_block - deal_start_block) div
\* proof_frequency_in_blocks).  (Stated for proof_frequency_in_blocks > 0.)
CurrentWindowClassification ==
    (Called("get_the_current_window")
        /\ call.deal_info.proof_frequency_in_blocks # Zero) =>
        LET start == call.deal_info.deal_start_block
            len   == call.deal_info.deal_length_in_blocks
            freq  == call.deal_info.proof_frequency_in_blocks
            cur   == call.current_block_num
        IN  IF Lt(cur, start) THEN ret = Err("Future")
            ELSE IF Le(Add(start, len), cur) THEN ret = Err("Past")
            ELSE ret = Ok(Add(start, Mul(freq, DivMod(Sub(cur, start), freq).quot)))

\* C6: with t the target block of the window after the one that contains
\* last_submission, get_the_next_window returns Some(t) exactly when
\* t < final_block = deal_start_block + deal_length_in_blocks and None exactly
\* when t >= final_block.  (Stated for proof_frequency_in_blocks > 0 and
\* last_submission >= deal_start_block, where that window exists.)
NextWindowIffBeforeFinalBlock ==
    (Called("get_the_next_window")
        /\ call.deal_info.proof_frequency_in_blocks # Zero
        /\ Le(call.deal_info.deal_start_block, call.last_submission)) =>
        LET start == call.deal_info.deal_start_block
            len   == call.deal_info.deal_length_in_blocks
            freq  == call.deal_info.proof_frequency_in_blocks
            w     == DivMod(Sub(call.last_submission, start), freq).quot
            t     == Add(start, Mul(freq, Add(w, One)))
        IN  IF Lt(t, Add(start, len)) THEN ret = Some(t) ELSE ret = None

\* C7: compute_target_block_start(deal_start_block, proof_frequency_in_blocks,
\* i) = deal_start_block + proof_frequency_in_blocks * i for every window
\* index i; start 3 and frequency 5 give 3, 8, 13, 18 for i = 0..3.
TargetBlockStartFormula ==
    Called("compute_target_block_start") =>
        /\ ret = Ok(Add(call.deal_start_block,
                        Mul(call.proof_frequency_in_blocks, call.target_window_num)))
        /\ (call.deal_start_block = N(3) /\ call.proof_frequency_in_blocks = N(5)) =>
               \A i \in 0..3 : call.target_window_num = N(i) => ret = Ok(N(3 + 5 * i))

\* C8: get_num_windows(deal_length, window_size) with window_size > 0 returns
\* ceil(deal_length / window_size): 10 for (20, 2) and 7 for (20, 3).
NumWindowsIsCeiling ==
    (Called("get_num_windows") /\ call.window_size # Zero) =>
        ret = Ok(CeilDiv(call.deal_length, call.window_size))

NearestF64(q) ==
    LET k    == BitLen(q) - F64_MANTISSA_DIGITS
        lo   == Shl(Shr(q, k), k)
        hi   == Add(lo, Pow2(k))
        down == Sub(q, lo)
        up   == Sub(hi, q)
    IN  IF Lt(down, up) THEN lo
        ELSE IF Lt(up, down) THEN hi
        ELSE IF Limb(Shr(lo, k), 1) % 2 = 0 THEN lo ELSE hi

ZeroWindowSizeIsAnError ==
    (Called("get_num_windows") /\ call.window_size = Zero) =>
        ret = Err("Cannot divide by zero")

\* get_num_windows has been called with window size 0 on a non-zero deal
\* length and has returned an error value.
ZeroWindowSizeReached ==
    /\ Called("get_num_windows")
    /\ call.window_size = Zero
    /\ call.deal_length = N(20)
    /\ ret.tag = "Err"

\* C11: no block-number computation of the scheduler wraps silently.  When
\* deal_start_block + deal_length_in_blocks or proof_frequency * window_index
\* exceeds 2^64 - 1, or last_submission < deal_start_block, the call ends in a
\* fatal error, never in a result reduced modulo 2^64.
SchedulerNeverWraps ==
    /\ (Called("get_final_block")
           /\ Lt(U64_MAX, Add(call.self.deal_start_block,
                              call.self.deal_length_in_blocks))) =>
           ret.tag = "Panic"
    /\ (Called("get_the_current_window")
           /\ Le(call.deal_info.deal_start_block, call.current_block_num)
           /\ Lt(U64_MAX, Add(call.deal_info.deal_start_block,
                              call.deal_info.deal_length_in_blocks))) =>
           ret.tag = "Panic"
    /\ (Called("get_the_next_window")
           /\ Lt(call.last_submission, call.deal_info.deal_start_block)) =>
           ret.tag = "Panic"
    /\ (Called("compute_target_block_start")
           /\ Lt(U64_MAX, Mul(call.proof_frequency_in_blocks,
                              call.target_window_num))) =>
           ret.tag = "Panic"

\* The last call was IpfsReader::seek.
Sought == call.fn = "IpfsReader::seek"

\* The position the last seek asks for, as an exact signed number: n for
\* Start(n), old offset + d for Current(d), length + d for End(d).
SeekTarget ==
    IF call.pos.kind = "Start" THEN Int64(FALSE, call.pos.n)
    ELSE IF call.pos.kind = "Current"
    THEN SignedAdd(Int64(FALSE, call.self.offset), call.pos.d)
    ELSE SignedAdd(Int64(FALSE, call.self.length), call.pos.d)

\* C12: IpfsReader::seek sends no request to the content collaborator (every
\* request in fetches belongs to a read) and changes only the cursor: length
\* and cid are as before the seek, and a successful seek returns and leaves
\* the cursor at n for Start(n), old offset + d for Current(d), length + d
\* for End(d).
SeekOnlyMovesTheCursor ==
    /\ Len(fetches) =
           Cardinality({i \in DOMAIN trace : trace[i].call.fn = "IpfsReader::read"})
    /\ Sought =>
           /\ reader.length = call.self.length
           /\ reader.cid = call.self.cid
           /\ ret.tag = "Ok" =>
                  /\ ~SeekTarget.neg
                  /\ reader.offset = SeekTarget.mag
                  /\ ret.val = SeekTarget.mag

\* C13: a relative seek (Current or End) to a negative absolute position
\* returns the invalid-seek error and leaves the reader as it was, and a read
\* that follows it fetches from the position held before the failed seek.
NegativeSeekIsRejected ==
    /\ (Sought /\ call.pos.kind # "Start" /\ SeekTarget.neg) =>
           /\ ret = Err("invalid seek to a negative position")
           /\ reader = call.self
    /\ \A i \in 2..Len(trace) :
           (/\ trace[i - 1].call.fn = "IpfsReader::seek"
            /\ trace[i - 1].ret.tag = "Err"
            /\ trace[i].call.fn = "IpfsReader::read") =>
               trace[i].call.self.offset = trace[i - 1].call.self.offset

\* A relative seek from a non-zero position to a negative one has failed and
\* the cursor is where it was.
NegativeSeekReached ==
    /\ Sought
    /\ call.pos = SeekFrom_Current(Int64(TRUE, Pow2(I64_BITS - 1)))
    /\ call.self.offset = One
    /\ ret.tag = "Err"
    /\ reader.offset = One

\* The cursor after the calls in trace, from the last successful seek's
\* target and the byte counts the reads after it returned.
RECURSIVE CursorAfter(_)
CursorAfter(n) ==
    IF n = 0 THEN Zero
    ELSE IF trace[n].ret.tag # "Ok" THEN CursorAfter(n - 1)
    ELSE IF trace[n].call.fn = "IpfsReader::seek" THEN trace[n].ret.val
    ELSE Add(CursorAfter(n - 1), trace[n].ret.val)

\* C14: IpfsReader::read at cursor p into a buffer of n bytes requests the
\* range [p, p + n) of the collaborator, returns k = min(n, content length -
\* p) bytes (0 at or past the end), the content's bytes [p, p + k), and
\* leaves the cursor at p + k; so the cursor is the last seek target plus
\* the bytes returned since.
ReadReturnsAndAdvances ==
    /\ call.fn = "IpfsReader::read" =>
           LET p == call.self.offset
               n == call.buf_len
               k == IF Le(content.len, p) THEN Zero ELSE Min(n, Sub(content.len, p))
           IN  /\ fetches[Len(fetches)] =
                      [cid |-> content.cid, offset |-> p, length |-> n]
               /\ ret = Ok(k)
               /\ frame.buf = Bytes(p, Add(p, k))
               /\ reader.offset = Add(p, k)
    /\ reader.offset = CursorAfter(Len(trace))

\* The content as a reader yields it from its start to its end.
WholeContent == Bytes(Zero, content.len)

\* C15: the incremental construction feeds the encoder exactly the bytes of
\* the content, in order, with no gap, overlap or padding (what has been
\* written is always the content up to the reader's cursor), and
\* gen_obao_ipfs returns the outboard encoding and the root hash that
\* gen_obao returns for the same content.
IncrementalOutboardIsBulkOutboard ==
    call.fn = "gen_obao_ipfs" =>
        /\ frame.pc \in {"read", "finalize"} =>
               frame.encoder.written = Bytes(Zero, reader.offset)
        /\ frame.pc = "write" =>
               Concat(frame.encoder.written, Written(frame.buf, frame.bytes_read))
                   = Bytes(Zero, reader.offset)
        /\ frame.pc = "done" =>
               /\ frame.encoder.written = WholeContent
               /\ ret = gen_obao(WholeContent)

\* gen_obao_ipfs has returned for a content of more than one block whose
\* last block is short.
IncrementalOutboardReached ==
    /\ call.fn = "gen_obao_ipfs"
    /\ frame.pc = "done"
    /\ Lt(N(DAG_BLOCK_SIZE), content.len)
    /\ DivMod(content.len, N(DAG_BLOCK_SIZE)).rem # Zero
    /\ ret = gen_obao(WholeContent)

\* The verifier was called with the proof as generated, the root of the
\* outboard encoding and the derived (chunk_offset, chunk_size), for a
\* proof generated by the function by from a file length that is the
\* content's.
CheckedAsGenerated(by) ==
    /\ frame.pc = "checked"
    /\ frame.proved.val.by = by
    /\ frame.proved.val.quality
    /\ frame.proved.val.file_length = content.len
    /\ frame.checked.val = [proof |-> "intact", root |-> "root", range |-> "derived",
                            made |-> frame.checked.val.made]

\* C16: for any non-empty content and any block hash, gen_proof produces a
\* proof, and check_if_merkle_proof_is_valid accepts it against the root
\* gen_obao produced with the (chunk_offset, chunk_size) derived from the
\* same block hash and file length.
LocalProofIsAccepted ==
    /\ (/\ call.fn = "create_proof_helper"
        /\ ret # Pending
        /\ call.quality
        /\ content.len # Zero
        /\ call.file_length = content.len) => ret.tag = "Ok"
    /\ CheckedAsGenerated("gen_proof") => ret = Ok(TRUE)

\* C17: for any non-empty content and every chunk index, gen_proof_ipfs
\* produces a proof, and check_if_merkle_proof_is_valid accepts it against
\* the root gen_obao_ipfs produced with the derived (chunk_offset,
\* chunk_size).
RemoteProofIsAccepted ==
    /\ (/\ call.fn = "gen_proof_ipfs"
        /\ content.len # Zero
        /\ call.file_length = content.len) => ret.tag = "Ok"
    /\ CheckedAsGenerated("gen_proof_ipfs") => ret = Ok(TRUE)

\* The verifier was called with a proof of gen_proof whose last byte had
\* its low bit flipped, the root of the outboard encoding and the derived
\* (chunk_offset, chunk_size).
CheckedAfterFlip ==
    /\ frame.pc = "checked"
    /\ frame.proved.val.by = "gen_proof"
    /\ frame.checked.val.root = "root"
    /\ frame.checked.val.range = "derived"
    /\ \/ ~frame.proved.val.quality /\ frame.checked.val.proof = "intact"
       \/ frame.proved.val.quality /\ frame.checked.val.proof = "flipped"

\* C18: a proof of gen_proof with the low bit of its last byte flipped is
\* rejected: check_if_merkle_proof_is_valid returns false.
FlippedProofIsRejected ==
    CheckedAfterFlip => ret = Ok(FALSE)

\* A flipped proof of a content of several chunks, made as check_bad_proof
\* makes it, has been rejected.
FlippedProofReached ==
    /\ CheckedAfterFlip
    /\ ~frame.proved.val.quality
    /\ Len(call.proof_bytes) > 2
    /\ ret = Ok(FALSE)

NoExtractionOnPartialData ==
    call.fn = "gen_proof_ipfs" =>
        LET proved == frame.proved.val
        IN  /\ (/\ proved.bytes_read.tag = "Some"
                /\ proved.bytes_read.val # proved.choice.val[2]) =>
                   /\ ret.tag = "Err"
                   /\ proved.input = None
            /\ (/\ call.file_length = content.len
                /\ proved.bytes_read.tag = "Some") =>
                   proved.bytes_read.val = proved.choice.val[2]

\* An iteration of the loop of gen_obao_ipfs reads: it requests and gets at
\* most DAG_BLOCK_SIZE bytes, gets none exactly when the cursor is at the
\* end of the content or after it, and otherwise moves the cursor forward by
\* what it got.
LoopReadAdvances ==
    frame.pc = "read" /\ frame'.pc \in {"write", "finalize"} =>
        /\ Le(frame'.bytes_read, N(DAG_BLOCK_SIZE))
        /\ (frame'.bytes_read = Zero) = Le(content.len, reader.offset)
        /\ (frame'.pc = "finalize") = (frame'.bytes_read = Zero)
        /\ reader'.offset = Add(reader.offset, frame'.bytes_read)
        /\ frame'.pc = "write" => Lt(reader.offset, reader'.offset)

\* The encoder is finalized in one step only, taken after the read that got
\* no bytes, when every byte of the content has been written; the call has
\* returned then and takes no further step.
FinalizedOnceAtTheEnd ==
    /\ frame.pc = "done" => frame'.pc = "done"
    /\ frame'.encoded # frame.encoded =>
           /\ frame.pc = "finalize" /\ frame'.pc = "done"
           /\ frame.encoded = None
           /\ reader.offset = content.len
           /\ ByteLen(frame.encoder.written) = content.len
           /\ frame'.encoded = Some(Encoder_finalize(frame.encoder))

\* C21: for any finite content the incremental build loop of gen_obao_ipfs
\* terminates: each iteration reads at most DAG_BLOCK_SIZE bytes and strictly
\* advances the cursor, the loop exits on the first zero-length read (reached
\* once the cursor is at the end of the content), and the encoder is
\* finalized exactly once, after the final, possibly short, block has been
\* written.
ObaoLoopTerminates ==
    /\ <>(frame.pc = "done" /\ ret.tag = "Ok" /\ frame.encoded # None)
    /\ [][LoopReadAdvances]_vars
    /\ [][FinalizedOnceAtTheEnd]_vars

\* gen_obao_ipfs has returned after a loop of more than two iterations whose
\* last block was short.
ObaoLoopTerminatedReached ==
    /\ call.fn = "gen_obao_ipfs"
    /\ frame.pc = "done"
    /\ ret.tag = "Ok"
    /\ Len(fetches) > 3
    /\ DivMod(content.len, N(DAG_BLOCK_SIZE)).rem # Zero
    /\ frame.encoded = Some(Encoder_finalize(frame.encoder))

\* Calls i < j of the trace are two post_proof calls with the same deal,
\* proof bytes and target_block_start, the first of which the contract
\* recorded.
Resubmission(i, j) ==
    /\ i < j
    /\ trace[i].call.fn = "post_proof"
    /\ trace[j].call = trace[i].call
    /\ trace[i].ret.tag = "Ok"
    /\ \E l \in 1..Len(chain.logs) : chain.logs[l].block = trace[i].ret.val

\* C22: idempotent submission: submitting the same proof bytes for the same
\* deal and target_block_start twice is recognized as a duplicate: the
\* second post_proof does not come back as one more accepted submission in
\* a new block (it fails as already recorded, or gives the block of the
\* first), and the contract's record for the window still names one block.
DuplicateSubmissionIsRecognized ==
    \A i, j \in 1..Len(trace) :
        Resubmission(i, j) =>
            /\ trace[j].ret.tag = "Ok" => trace[j].ret = trace[i].ret
            /\ \A r, q \in chain.proofs :
                   /\ r.deal_id = q.deal_id
                   /\ r.target_block_start = q.target_block_start
                   => r.block = q.block

\* The range requests gen_obao_ipfs sends when it runs alone on content c:
\* one block after the other from the start, and one more at the end, which
\* gets no bytes.
ObaoFetchesAlone(c) ==
    [k \in 1..(CHOOSE n \in 1..(MaxObaoBlocks + 2) :
                  N(n) = Add(CeilDiv(c.len, N(DAG_BLOCK_SIZE)), One)) |->
        [cid |-> c.cid, offset |-> Min(MulSmall(N(DAG_BLOCK_SIZE), k - 1), c.len),
         length |-> N(DAG_BLOCK_SIZE)]]

\* What invocation p returns and requests when it runs alone.
RunAlone(p) ==
    IF frame[p].fn = "gen_obao_ipfs"
    THEN [ret |-> gen_obao(WholeContent), fetches |-> ObaoFetchesAlone(content)]
    ELSE gen_proof_ipfs(frame[p].block_hash.val, content.cid,
                        outboard(WholeContent).obao, content.len, content,
                        frame[p].cumulative_size, overflow_checks)

\* C23: concurrent proof generations for the same content never share
\* cursor state: under every interleaving of the steps of two invocations
\* of gen_proof_ipfs or gen_obao_ipfs, an invocation that has returned has
\* sent the range requests it sends when run alone and returned what it
\* returns when run alone.
ConcurrentInvocationsAreIndependent ==
    \A p \in Invocations :
        frame[p].pc = "done" =>
            /\ frame[p].ret = RunAlone(p).ret
            /\ frame[p].fetches = RunAlone(p).fetches

\* Both invocations have returned Ok, a gen_proof_ipfs that sought away
\* from the start having sent its request between two requests of a
\* gen_obao_ipfs.
ConcurrentInterleavingReached ==
    /\ \A p \in Invocations : frame[p].pc = "done" /\ frame[p].ret.tag = "Ok"
    /\ frame[1].fn = "gen_obao_ipfs"
    /\ frame[2].fn = "gen_proof_ipfs"
    /\ frame[2].choice.val[1] # Zero
    /\ \E j \in 2..(Len(fetches) - 1) : fetches[j] = frame[2].fetches[1]

\* C24: for every block hash and every u64 file_length > 0, the challenge
\* compute_random_block_choice_from_hash returns lies inside the file and
\* inside one chunk: 1 <= chunk_size <= 1024 and
\* chunk_offset + chunk_size <= file_length, so that the 1024-byte buffer of
\* gen_proof_ipfs is never sliced past its end.
ChallengeLiesInsideTheFile ==
    (Called("compute_random_block_choice_from_hash") /\ call.file_length # Zero) =>
        /\ ret.tag = "Ok"
        /\ Le(One, ret.val[2])
        /\ Le(ret.val[2], N(CHUNK_SIZE))
        /\ Le(Add(ret.val[1], ret.val[2]), call.file_length)

\* The chunk indices of a file of file_length > 0 bytes that are looked at:
\* all of them for a file of a few chunks, the first two and the last two
\* for a longer one.
ChallengedChunks(file_length) ==
    LET final == Sub(CeilDiv(file_length, N(CHUNK_SIZE)), One)
    IN  IF Le(final, N(MaxChunks)) THEN {i \in {N(k) : k \in 0..MaxChunks} : Le(i, final)}
        ELSE {Zero, One, Sub(final, One), final}

\* The bytes of chunk i of a file of file_length bytes, as the pair
\* (chunk_offset, chunk_size).
ChunkRange(file_length, i) ==
    <<MulSmall(i, CHUNK_SIZE),
      Sub(Min(MulSmall(Add(i, One), CHUNK_SIZE), file_length), MulSmall(i, CHUNK_SIZE))>>

\* C25: every byte of the file can be challenged: for every file_length > 0
\* and every chunk index i in 0 .. ceil(file_length / 1024) - 1 there is a
\* block hash (the hash whose value is i is one) for which
\* compute_random_block_choice_from_hash returns chunk_offset = i * 1024,
\* and the ranges returned are the chunks of the file, so that their union
\* is [0, file_length).
EveryChunkCanBeChallenged ==
    (Called("compute_random_block_choice_from_hash") /\ call.file_length # Zero) =>
        \A i \in ChallengedChunks(call.file_length) :
            \E h \in BlockHashes \cup {H256_from_uint(i)} :
                compute_random_block_choice_from_hash(h, call.file_length, overflow_checks)
                    = Ok(ChunkRange(call.file_length, i))

\* C26: whenever get_the_current_window returns Ok(t), with
\* proof_frequency_in_blocks > 0, t is the start of the window that contains
\* the current block: t <= current_block < t + proof_frequency_in_blocks,
\* deal_start_block <= t < deal_start_block + deal_length_in_blocks, and
\* t - deal_start_block is a multiple of proof_frequency_in_blocks.
CurrentWindowContainsTheBlock ==
    (/\ Called("get_the_current_window")
     /\ ret.tag = "Ok"
     /\ call.deal_info.proof_frequency_in_blocks # Zero) =>
        /\ Le(ret.val, call.current_block_num)
        /\ Lt(call.current_block_num,
              Add(ret.val, call.deal_info.proof_frequency_in_blocks))
        /\ Le(call.deal_info.deal_start_block, ret.val)
        /\ Lt(ret.val, Add(call.deal_info.deal_start_block,
                           call.deal_info.deal_length_in_blocks))
        /\ DivMod(Sub(ret.val, call.deal_info.deal_start_block),
                  call.deal_info.proof_frequency_in_blocks).rem = Zero

\* get_the_current_window has returned the start (13) of the third window of
\* a deal from block 3 with windows of 5 blocks, for block 14 inside it.
CurrentWindowReached ==
    /\ Called("get_the_current_window")
    /\ call.deal_info = [deal_start_block |-> N(3), deal_length_in_blocks |-> N(21),
                         proof_frequency_in_blocks |-> N(5)]
    /\ call.current_block_num = N(14)
    /\ ret = Ok(N(13))

\* C27: for every deal with proof_frequency_in_blocks > 0 and
\* deal_length_in_blocks > 0, the walk that starts with last_submission =
\* deal_start_block and feeds each Some(t) back into get_the_next_window
\* yields strictly increasing targets, each the start of the window after
\* the last one and below the final block, and reaches None after finitely
\* many steps, having visited (window 0 counted) exactly
\* ceil(deal_length_in_blocks / proof_frequency_in_blocks) windows.
WindowsAreVisitedInOrder ==
    /\ [](ret.tag = "Some" =>
             /\ ret.val = Add(call.last_submission,
                              call.deal_info.proof_frequency_in_blocks)
             /\ Lt(ret.val, Add(call.deal_info.deal_start_block,
                                call.deal_info.deal_length_in_blocks)))
    /\ [](ret = None =>
             N(Cardinality(frame.visited))
                 = CeilDiv(call.deal_info.deal_length_in_blocks,
                           call.deal_info.proof_frequency_in_blocks))
    /\ <>(ret = None)

\* C28: the two tests for a deal that is over agree: for every deal and
\* current block, EthClient::deal_over(current_block, deal) is true exactly
\* when get_the_current_window(deal, current_block) returns
\* DealStatusError::Past, the block deal_start_block + deal_length_in_blocks
\* included.
DealOverAgreesWithPast ==
    Called("EthClient::deal_over") =>
        (ret = Ok(TRUE)
            <=> get_the_current_window(call.deal_info, call.current_block_num,
                                       overflow_checks) = Err("Past"))

\* The deal of the call to compute_target_window, for a deal length.
DealOfLength(deal_length_in_blocks) ==
    [deal_start_block |-> call.deal_start_block,
     deal_length_in_blocks |-> deal_length_in_blocks,
     proof_frequency_in_blocks |-> call.proof_frequency_in_blocks]

\* C29: the two ways of locating the current window agree: for every deal
\* with proof_frequency_in_blocks > 0 and every current block for which
\* get_the_current_window returns Ok(t),
\* compute_target_block_start(deal_start_block, proof_frequency_in_blocks, w)
\* = t for the window number w that compute_target_window derives from the
\* same current block; and compute_target_window fails, returning no window
\* number, when current_block < deal_start_block.
TargetWindowAgreesWithCurrentWindow ==
    Called("EthClient::compute_target_window") =>
        /\ \A deal_length_in_blocks \in {d.deal_length_in_blocks : d \in DealInfos} :
               \A t \in {get_the_current_window(DealOfLength(deal_length_in_blocks),
                                                chain.height, overflow_checks)} :
                   (/\ call.proof_frequency_in_blocks # Zero
                    /\ t.tag = "Ok"
                    /\ ret # Err("provider")) =>
                       /\ ret.tag = "Ok"
                       /\ compute_target_block_start(
                              call.deal_start_block, call.proof_frequency_in_blocks,
                              ret.val, overflow_checks) = t
        /\ Lt(chain.height, call.deal_start_block) => ret.tag # "Ok"

\* C30: get_proof_from_logs never panics and never reads outside the log
\* data: it returns None when no log matches, when the data is shorter than
\* 64 bytes, or when it is shorter than 64 + the declared length L; otherwise
\* it returns exactly data[64 .. 64 + L], where L is the whole 32-byte length
\* word of the data and 64 + L does not overflow.
ProofFromLogsIsTheDeclaredData ==
    Called("get_proof_from_logs") =>
        /\ ret.tag # "Panic"
        /\ IF call.block_logs = <<>> THEN ret = Ok(None)
           ELSE \E data \in {call.block_logs[1].data} :
                    IF Lt(data.len, Add(N(WORD * 2), data.size))
                    THEN ret = Ok(None)
                    ELSE ret = Ok(Some(ByteSlice(LogBytes(data), N(WORD * 2),
                                                 Add(N(WORD * 2), data.size))))

====
